---- MODULE Spec2Model ----
(***************************************************************************)
(* Job tracker REST API: the Job collection, the job routes that change it *)
(* and the analytics routes that aggregate over it.                        *)
(*                                                                         *)
(* Instants are whole days (every Date is taken at 00:00 UTC, the server   *)
(* running in UTC); day 0 is 2023-01-01, a Sunday.  Percentages and day    *)
(* averages are kept in hundredths (5000 stands for 50.00).                *)
(***************************************************************************)
EXTENDS Integers, Sequences, FiniteSets, TLC

VARIABLES jobs, nextId, now, res, inflight, users

vars == <<jobs, nextId, now, res, inflight, users>>

(***************************************************************************)
(* Bounds of the model.                                                    *)
(***************************************************************************)
MaxJobs == 3

MaxInterviews == 3

(***************************************************************************)
(* Domains of the Job schema.                                              *)
(***************************************************************************)
Users == {"u1", "u2"}

Statuses == {"applied", "interviewing", "offered", "rejected", "withdrawn"}

InterviewTypes == {"phone", "video", "onsite", "technical", "behavioral"}

Outcomes == {"passed", "failed", "pending"}

\* A field the document does not have (location and followUpDate are optional).
Undefined == "<undefined>"

NoDate == -1

(***************************************************************************)
(* Calendar: what Date and the $year/$month/$week/$quarter operators       *)
(* compute from an instant.                                                *)
(***************************************************************************)
Epoch == [year |-> 2023]

IsLeap(y) == (y % 4 = 0 /\ y % 100 # 0) \/ y % 400 = 0

DaysInYear(y) == IF IsLeap(y) THEN 366 ELSE 365

DaysInMonth(y, m) ==
    IF m = 2 THEN (IF IsLeap(y) THEN 29 ELSE 28)
    ELSE IF m \in {4, 6, 9, 11} THEN 30 ELSE 31

RECURSIVE DaysBeforeYear(_)
DaysBeforeYear(y) ==
    IF y = Epoch.year THEN 0
    ELSE IF y > Epoch.year THEN DaysBeforeYear(y - 1) + DaysInYear(y - 1)
    ELSE DaysBeforeYear(y + 1) - DaysInYear(y)

RECURSIVE DaysBeforeMonth(_, _)
DaysBeforeMonth(y, m) ==
    IF m = 1 THEN 0 ELSE DaysBeforeMonth(y, m - 1) + DaysInMonth(y, m - 1)

\* MakeDay of ECMAScript: month0 is 0-based and may lie outside 0..11, the day
\* may lie outside the month; both carry over.
MakeDay(y, month0, d) ==
    LET yy == y + (month0 \div 12)
        mm == (month0 % 12) + 1
    IN  DaysBeforeYear(yy) + DaysBeforeMonth(yy, mm) + d - 1

RECURSIVE YearFrom(_, _)
YearFrom(y, t) == IF t < DaysBeforeYear(y + 1) THEN y ELSE YearFrom(y + 1, t)

RECURSIVE MonthFrom(_, _, _)
MonthFrom(y, m, doy) ==
    IF doy <= DaysBeforeMonth(y, m) + DaysInMonth(y, m) THEN m
    ELSE MonthFrom(y, m + 1, doy)

\* The calendar fields of the instant t: year, day of the year (from 1), month
\* (from 1), day of the month, day of the week (0 is Sunday), $week (weeks begin
\* on Sunday, the days before the year's first Sunday are week 0) and $quarter.
CalendarFields(t) ==
    LET year  == YearFrom(Epoch.year, t)
        doy   == t - DaysBeforeYear(year) + 1
        month == MonthFrom(year, 1, doy)
        dow   == t % 7
    IN  [year    |-> year,
         month   |-> month,
         date    |-> doy - DaysBeforeMonth(year, month),
         dow     |-> dow,
         week    |-> (doy - 1 + 7 - dow) \div 7,
         quarter |-> ((month - 1) \div 3) + 1]

\* The instants of the model: 2023-01-01 to 2025-12-31.
Calendar == [t \in 0..(DaysBeforeYear(Epoch.year + 3) - 1) |-> CalendarFields(t)]

YearOf(t) == Calendar[t].year

MonthOf(t) == Calendar[t].month

DateOf(t) == Calendar[t].date

DayOfWeek(t) == Calendar[t].dow

WeekOf(t) == Calendar[t].week

QuarterOf(t) == Calendar[t].quarter

(***************************************************************************)
(* Arithmetic of the response shaping.                                     *)
(***************************************************************************)
\* Math.round(num / den) for den > 0: the nearest integer, a half going up.
MathRound(num, den) == (2 * num + den) \div (2 * den)

\* Math.round(x * 100) / 100 for the percentage x = 100 * num / den, in hundredths.
RoundPercent(num, den) == MathRound(100 * 100 * num, den)

Min(a, b) == IF a < b THEN a ELSE b

\* Every enumeration of the finite set S as a sequence without repetition.
Enumerations(S) ==
    {f \in [1..Cardinality(S) -> S] : \A i, j \in 1..Cardinality(S) : i # j => f[i] # f[j]}

RECURSIVE SumOver(_, _)
SumOver(S, f) ==
    IF S = {} THEN 0
    ELSE LET x == CHOOSE x \in S : TRUE IN f[x] + SumOver(S \ {x}, f)

(***************************************************************************)
(* Query parameters as they arrive: absent, an integer literal, or another *)
(* text.  isInt accepts only integer literals, isIn only listed texts.     *)
(***************************************************************************)
Absent == [kind |-> "absent"]

IntParam(n) == [kind |-> "int", val |-> n]

TextParam(t) == [kind |-> "text", text |-> t]

\* An isInt without its range.
OptionalIsIntAnyRange(p, lo, hi) == p.kind = "absent" \/ p.kind = "int"

\* query(name).optional().isInt({min, max})
OptionalIsInt(p, lo, hi) ==
    p.kind = "absent" \/ (p.kind = "int" /\ lo <= p.val /\ p.val <= hi)

\* query(name).optional().isIn(list)
OptionalIsIn(p, list) ==
    p.kind = "absent" \/ (p.kind = "text" /\ p.text \in list)

\* parseInt(p) || dflt
ParseIntOr(p, dflt) == IF p.kind = "int" /\ p.val # 0 THEN p.val ELSE dflt

\* errors holds the names of the parameters that failed their validator.
ValidationFailed(endpoint, caller, q, t, errors) ==
    [endpoint |-> endpoint, caller |-> caller, query |-> q, time |-> t,
     status |-> 400, success |-> FALSE, message |-> "Validation failed",
     errors |-> errors, storeCalls |-> 0]

Ok(endpoint, caller, q, t, body) ==
    [endpoint |-> endpoint, caller |-> caller, query |-> q, time |-> t,
     status |-> 200, success |-> TRUE, storeCalls |-> 1, body |-> body]

(***************************************************************************)
(* The Job collection: store maps the ids of the documents to documents.   *)
(***************************************************************************)
\* A $match that leaves the user out.
OwnedByAnyone(store, caller) == DOMAIN store

\* $match: { user: ObjectId(caller) }
OwnedBy(store, caller) == {i \in DOMAIN store : store[i].user = caller}

\* The documents of ids whose status is s.
WithStatus(store, ids, s) == {i \in ids : store[i].status = s}

\* A breakdown that counts a status once however many records have it.
StatusBreakdownPresence(store, ids) ==
    [s \in {store[i].status : i \in ids} |-> 1]

\* statuses.reduce((acc, s) => { acc[s] = (acc[s] || 0) + 1 }, {}): only the
\* statuses that occur get a key.
StatusBreakdown(store, ids) ==
    [s \in {store[i].status : i \in ids} |-> Cardinality(WithStatus(store, ids, s))]

(***************************************************************************)
(* GET /api/analytics/stats                                                *)
(***************************************************************************)
\* Job.getUserStats: $match the user, $group by status with a count.
GetUserStats(store, userId) ==
    LET ids == OwnedBy(store, userId)
    IN  {[_id |-> s, count |-> Cardinality(WithStatus(store, ids, s))] :
            s \in {store[i].status : i \in ids}}

\* A statsObj that starts with total alone.
ZeroStatsTotalOnly == [k \in {"total"} |-> 0]

ZeroStats == [k \in {"total"} \cup Statuses |-> 0]

\* A forEach that counts a group twice into total.
RECURSIVE StatsForEachTwice(_, _)
StatsForEachTwice(stats, statsObj) ==
    IF stats = {} THEN statsObj
    ELSE LET stat == CHOOSE g \in stats : TRUE
         IN  StatsForEachTwice(stats \ {stat},
                 [statsObj EXCEPT ![stat._id] = stat.count,
                                  !["total"] = @ + stat.count + stat.count])

\* stats.forEach(stat => { statsObj[stat._id] = stat.count; statsObj.total += stat.count })
RECURSIVE StatsForEach(_, _)
StatsForEach(stats, statsObj) ==
    IF stats = {} THEN statsObj
    ELSE LET stat == CHOOSE g \in stats : TRUE
             set  == [k \in DOMAIN statsObj \cup {stat._id} |->
                        IF k = stat._id THEN stat.count ELSE statsObj[k]]
         IN  StatsForEach(stats \ {stat}, [set EXCEPT !["total"] = @ + stat.count])

StatsBody(store, caller) == StatsForEach(GetUserStats(store, caller), ZeroStats)

StatsResponse(store, caller, t) ==
    Ok("stats", caller, Absent, t, StatsBody(store, caller))

(***************************************************************************)
(* $sort: every order of the groups that the sort may deliver; groups that *)
(* compare equal come in any order ($group delivers its groups in none).   *)
(***************************************************************************)
\* before holds the pairs <<a, b>> of which the sort puts a strictly before b.
SortOrders(S, before) ==
    {f \in Enumerations(S) :
        \A i, j \in 1..Cardinality(S) : i < j => <<f[j], f[i]>> \notin before}

\* The one order of a strict total order.
Sorted(S, before) == CHOOSE f \in SortOrders(S, before) : TRUE

\* A pipeline without its $limit stage.
LimitIgnored(seq, n) == seq

\* $limit: n
Limit(seq, n) == SubSeq(seq, 1, Min(n, Len(seq)))

(***************************************************************************)
(* GET /api/analytics/timeline                                             *)
(***************************************************************************)
MonthsMin == 1

MonthsMax == 24

MonthsDefault == 6

\* Number.prototype.toString() of a natural number, as its sequence of characters.
Digit(d) == <<"0", "1", "2", "3", "4", "5", "6", "7", "8", "9">>[d + 1]

RECURSIVE NumberToString(_)
NumberToString(n) == IF n < 10 THEN <<Digit(n)>> ELSE Append(NumberToString(n \div 10), Digit(n % 10))

\* String.prototype.padStart(len, ch)
RECURSIVE PadStart(_, _, _)
PadStart(str, len, ch) == IF Len(str) >= len THEN str ELSE PadStart(<<ch>> \o str, len, ch)

\* `${year}-${month.toString().padStart(2, '0')}`
FormatPeriod(year, month) == NumberToString(year) \o <<"-">> \o PadStart(NumberToString(month), 2, "0")

\* startDate = new Date(); startDate.setMonth(startDate.getMonth() - months)
TimelineStart(t, months) == MakeDay(YearOf(t), MonthOf(t) - 1 - months, DateOf(t))

\* $match: { user, applicationDate: { $gte: startDate } }
TimelineMatch(store, caller, startDate) ==
    {i \in OwnedBy(store, caller) : store[i].applicationDate >= startDate}

\* $group: { _id: { year: $year, month: $month }, count, statuses }
TimelineKey(job) == <<YearOf(job.applicationDate), MonthOf(job.applicationDate)>>

\* $sort: { '_id.year': 1, '_id.month': 1 }
TimelineBefore(a, b) == a[1] < b[1] \/ (a[1] = b[1] /\ a[2] < b[2])

TimelineBody(store, caller, months, t) ==
    LET ids    == TimelineMatch(store, caller, TimelineStart(t, months))
        keys   == {TimelineKey(store[i]) : i \in ids}
        order  == Sorted(keys, {p \in keys \X keys : TimelineBefore(p[1], p[2])})
        members(k)  == {i \in ids : TimelineKey(store[i]) = k}
    IN  [n \in 1..Len(order) |->
            [period   |-> FormatPeriod(order[n][1], order[n][2]),
             total    |-> Cardinality(members(order[n])),
             statuses |-> StatusBreakdown(store, members(order[n]))]]

TimelineResponse(store, caller, q, t) ==
    IF ~OptionalIsInt(q, MonthsMin, MonthsMax)
    THEN ValidationFailed("timeline", caller, q, t, {"months"})
    ELSE Ok("timeline", caller, q, t,
            TimelineBody(store, caller, ParseIntOr(q, MonthsDefault), t))

(***************************************************************************)
(* GET /api/analytics/companies and GET /api/analytics/locations           *)
(***************************************************************************)
LimitMin == 1

LimitMax == 50

LimitDefault == 10

SuccessStatuses == {"offered", "interviewing"}

\* A success rate that counts offered alone as a success.
GroupSuccessRateOfferedOnly(store, ids) ==
    LET total      == Cardinality(ids)
        successful == Cardinality({i \in ids : store[i].status = "offered"})
    IN  IF total > 0 THEN RoundPercent(successful, total) ELSE 0

\* successful = statuses.filter(s => ['offered', 'interviewing'].includes(s)).length;
\* successRate = total > 0 ? (successful / total) * 100 : 0; Math.round(successRate * 100) / 100
GroupSuccessRate(store, ids) ==
    LET total      == Cardinality(ids)
        successful == Cardinality({i \in ids : store[i].status \in SuccessStatuses})
    IN  IF total > 0 THEN RoundPercent(successful, total) ELSE 0

\* $avg of (new Date() - applicationDate) / (1000 * 60 * 60 * 24), then
\* Math.round(avg * 100) / 100, in hundredths of a day.
AvgDaysSinceApplication(store, ids, t) ==
    MathRound(100 * SumOver(ids, [i \in ids |-> t - store[i].applicationDate]),
              Cardinality(ids))

CompaniesMatch(store, caller) == OwnedBy(store, caller)

CompanyGroup(store, ids, c) == {i \in ids : store[i].company = c}

\* The orders $sort: { count: -1 } may deliver the company groups in.
CompanyOrders(store, caller) ==
    LET ids  == CompaniesMatch(store, caller)
        keys == {store[i].company : i \in ids}
        size(c) == Cardinality(CompanyGroup(store, ids, c))
    IN  SortOrders(keys, {p \in keys \X keys : size(p[1]) > size(p[2])})

CompaniesBody(store, caller, limit, t, order) ==
    LET ids     == CompaniesMatch(store, caller)
        listed  == Limit(order, limit)
    IN  [n \in 1..Len(listed) |->
            LET g == CompanyGroup(store, ids, listed[n])
            IN  [company                 |-> listed[n],
                 totalApplications       |-> Cardinality(g),
                 successRate             |-> GroupSuccessRate(store, g),
                 avgDaysSinceApplication |-> AvgDaysSinceApplication(store, g, t),
                 statusBreakdown         |-> StatusBreakdown(store, g)]]

CompaniesResponse(store, caller, q, t, order) ==
    IF ~OptionalIsInt(q, LimitMin, LimitMax)
    THEN ValidationFailed("companies", caller, q, t, {"limit"})
    ELSE Ok("companies", caller, q, t,
            CompaniesBody(store, caller, ParseIntOr(q, LimitDefault), t, order))

\* A $match on the user alone.
LocationsMatchAnyLocation(store, caller) == OwnedBy(store, caller)

\* $match: { user, location: { $exists: true, $ne: '' } }
LocationsMatch(store, caller) ==
    {i \in OwnedBy(store, caller) : store[i].location # Undefined /\ store[i].location # ""}

LocationGroup(store, ids, l) == {i \in ids : store[i].location = l}

LocationOrders(store, caller) ==
    LET ids  == LocationsMatch(store, caller)
        keys == {store[i].location : i \in ids}
        size(l) == Cardinality(LocationGroup(store, ids, l))
    IN  SortOrders(keys, {p \in keys \X keys : size(p[1]) > size(p[2])})

LocationsBody(store, caller, order) ==
    LET ids == LocationsMatch(store, caller)
    IN  [n \in 1..Len(order) |->
            LET g == LocationGroup(store, ids, order[n])
            IN  [location          |-> order[n],
                 totalApplications |-> Cardinality(g),
                 successRate       |-> GroupSuccessRate(store, g),
                 statusBreakdown   |-> StatusBreakdown(store, g)]]

LocationsResponse(store, caller, t, order) ==
    Ok("locations", caller, Absent, t, LocationsBody(store, caller, order))

(***************************************************************************)
(* GET /api/analytics/interviews                                           *)
(***************************************************************************)
\* The order of strings under $sort, for the two enums the groups are keyed by.
TypesAscending == <<"behavioral", "onsite", "phone", "technical", "video">>

OutcomesAscending == <<"failed", "passed", "pending">>

Rank(seq, x) == CHOOSE n \in 1..Len(seq) : seq[n] = x

\* $match: { user, 'interviewDates.0': { $exists: true } }
InterviewsMatch(store, caller) ==
    {i \in OwnedBy(store, caller) : Len(store[i].interviewDates) > 0}

\* An $unwind that delivers one unit per document, its first entry.
UnwindFirstOnly(store, ids) == {<<i, 1>> : i \in {j \in ids : Len(store[j].interviewDates) > 0}}

\* $unwind: '$interviewDates': one unit per entry, <<document, position>>.
Unwind(store, ids) ==
    UNION {{<<i, n>> : n \in 1..Len(store[i].interviewDates)} : i \in ids}

\* $group: { _id: { type, outcome }, count: { $sum: 1 } }
InterviewGroups(store, caller) ==
    LET units    == Unwind(store, InterviewsMatch(store, caller))
        entry(u) == store[u[1]].interviewDates[u[2]]
    IN  {[type |-> entry(u).type, outcome |-> entry(u).outcome,
          count |-> Cardinality({v \in units : entry(v).type = entry(u).type
                                               /\ entry(v).outcome = entry(u).outcome})] :
            u \in units}

\* $sort: { '_id.type': 1, '_id.outcome': 1 }
InterviewBefore(a, b) ==
    \/ Rank(TypesAscending, a.type) < Rank(TypesAscending, b.type)
    \/ /\ a.type = b.type
       /\ Rank(OutcomesAscending, a.outcome) < Rank(OutcomesAscending, b.outcome)

NewTypeStats == [total |-> 0, passed |-> 0, failed |-> 0, pending |-> 0]

\* interviews.forEach: create the type's entry when it is not there, add the count
\* to its total and store the count under the outcome.
RECURSIVE InterviewsForEach(_, _, _)
InterviewsForEach(interviews, n, perf) ==
    IF n > Len(interviews) THEN perf
    ELSE LET g     == interviews[n]
             made  == IF g.type \in DOMAIN perf THEN perf
                      ELSE [k \in DOMAIN perf \cup {g.type} |->
                              IF k = g.type THEN NewTypeStats ELSE perf[k]]
             added == [made[g.type] EXCEPT !.total = @ + g.count]
         IN  InterviewsForEach(interviews, n + 1,
                 [made EXCEPT ![g.type] = [added EXCEPT ![g.outcome] = g.count]])

\* A successRate cut to 2 decimals with Math.floor.
InterviewSuccessRateFloor(stats) ==
    IF stats.total > 0 THEN (100 * 100 * stats.passed) \div stats.total ELSE 0

\* stats.successRate = stats.total > 0 ? Math.round((passed / total) * 100 * 100) / 100 : 0
InterviewSuccessRate(stats) ==
    IF stats.total > 0 THEN RoundPercent(stats.passed, stats.total) ELSE 0

InterviewsBody(store, caller) ==
    LET groups     == InterviewGroups(store, caller)
        interviews == Sorted(groups, {p \in groups \X groups : InterviewBefore(p[1], p[2])})
        perf       == InterviewsForEach(interviews, 1, <<>>)
    IN  [ty \in DOMAIN perf |->
            [total |-> perf[ty].total, passed |-> perf[ty].passed,
             failed |-> perf[ty].failed, pending |-> perf[ty].pending,
             successRate |-> InterviewSuccessRate(perf[ty])]]

InterviewsResponse(store, caller, t) ==
    Ok("interviews", caller, Absent, t, InterviewsBody(store, caller))

(***************************************************************************)
(* GET /api/analytics/trends                                               *)
(***************************************************************************)
Periods == {"week", "month", "quarter", "year"}

\* req.query.period || 'month'
PeriodOf(q) == IF q.kind = "text" THEN q.text ELSE "month"

\* The switch: the start of the window for each period.
TrendsStart(period, t) ==
    CASE period = "week"    -> t - 7
      [] period = "month"   -> MakeDay(YearOf(t), MonthOf(t) - 1 - 1, DateOf(t))
      [] period = "quarter" -> MakeDay(YearOf(t), MonthOf(t) - 1 - 3, DateOf(t))
      [] period = "year"    -> MakeDay(YearOf(t) - 1, MonthOf(t) - 1, DateOf(t))

\* The switch: dateFormat, the $group key of a document.
TrendsKey(period, job) ==
    CASE period = "week"    -> WeekOf(job.applicationDate)
      [] period = "month"   -> MonthOf(job.applicationDate)
      [] period = "quarter" -> QuarterOf(job.applicationDate)
      [] period = "year"    -> YearOf(job.applicationDate)

\* A $match that leaves the user out.
TrendsMatchAnyUser(store, caller, startDate) ==
    {i \in DOMAIN store : store[i].applicationDate >= startDate}

\* $match: { user, applicationDate: { $gte: startDate } }
TrendsMatch(store, caller, startDate) ==
    {i \in OwnedBy(store, caller) : store[i].applicationDate >= startDate}

\* A $sort in descending order: { _id: -1 }
TrendsBeforeDescending(a, b) == a > b

\* $sort: { _id: 1 }
TrendsBefore(a, b) == a < b

\* A bucket whose interviewToOfferRate divides by the bucket's total.
TrendEntryOfferOverTotal(store, key, ids) ==
    LET total        == Cardinality(ids)
        applied      == Cardinality(WithStatus(store, ids, "applied"))
        interviewing == Cardinality(WithStatus(store, ids, "interviewing"))
        offered      == Cardinality(WithStatus(store, ids, "offered"))
    IN  [period |-> key,
         totalApplications |-> total,
         applied |-> applied,
         interviewing |-> interviewing,
         offered |-> offered,
         applicationToInterviewRate |->
             IF total > 0 THEN RoundPercent(interviewing, total) ELSE 0,
         interviewToOfferRate |->
             IF total > 0 THEN RoundPercent(offered, total) ELSE 0,
         overallSuccessRate |->
             IF total > 0 THEN RoundPercent(offered, total) ELSE 0]

\* A bucket whose applicationToInterviewRate divides by the applied count.
TrendEntryInterviewOverApplied(store, key, ids) ==
    LET total        == Cardinality(ids)
        applied      == Cardinality(WithStatus(store, ids, "applied"))
        interviewing == Cardinality(WithStatus(store, ids, "interviewing"))
        offered      == Cardinality(WithStatus(store, ids, "offered"))
    IN  [period |-> key,
         totalApplications |-> total,
         applied |-> applied,
         interviewing |-> interviewing,
         offered |-> offered,
         applicationToInterviewRate |->
             IF applied > 0 THEN RoundPercent(interviewing, applied) ELSE 0,
         interviewToOfferRate |->
             IF interviewing > 0 THEN RoundPercent(offered, interviewing) ELSE 0,
         overallSuccessRate |->
             IF total > 0 THEN RoundPercent(offered, total) ELSE 0]

\* trends.map(trend => ...): the counts and the three rates of one bucket.
TrendEntry(store, key, ids) ==
    LET total        == Cardinality(ids)
        applied      == Cardinality(WithStatus(store, ids, "applied"))
        interviewing == Cardinality(WithStatus(store, ids, "interviewing"))
        offered      == Cardinality(WithStatus(store, ids, "offered"))
    IN  [period |-> key,
         totalApplications |-> total,
         applied |-> applied,
         interviewing |-> interviewing,
         offered |-> offered,
         applicationToInterviewRate |->
             IF total > 0 THEN RoundPercent(interviewing, total) ELSE 0,
         interviewToOfferRate |->
             IF interviewing > 0 THEN RoundPercent(offered, interviewing) ELSE 0,
         overallSuccessRate |->
             IF total > 0 THEN RoundPercent(offered, total) ELSE 0]

TrendsBody(store, caller, period, t) ==
    LET ids        == TrendsMatch(store, caller, TrendsStart(period, t))
        keys       == {TrendsKey(period, store[i]) : i \in ids}
        order      == Sorted(keys, {p \in keys \X keys : TrendsBefore(p[1], p[2])})
        members(k) == {i \in ids : TrendsKey(period, store[i]) = k}
    IN  [period |-> period,
         trends |-> [n \in 1..Len(order) |->
                        TrendEntry(store, order[n], members(order[n]))]]

TrendsResponse(store, caller, q, t) ==
    IF ~OptionalIsIn(q, Periods)
    THEN ValidationFailed("trends", caller, q, t, {"period"})
    ELSE Ok("trends", caller, q, t, TrendsBody(store, caller, PeriodOf(q), t))

(***************************************************************************)
(* The job routes.                                                         *)
(***************************************************************************)
\* The texts of the model and what a case-insensitive search for a term finds in
\* them: { $regex: search, $options: 'i' } matches a text that holds the term.
Holds ==
    [text \in {"Acme", "Globex", "Engineer", "Analyst", "NYC", "Remote", "", "Acme contractor"} |->
        CASE text = "Acme"            -> {"acme", "e"}
          [] text = "Globex"          -> {"e"}
          [] text = "Engineer"        -> {"e"}
          [] text = "Acme contractor" -> {"acme", "e"}
          [] text = "Remote"          -> {"e"}
          [] OTHER                    -> {}]

RegexMatches(text, term) == text # Undefined /\ term \in Holds[text]

\* The order of the texts under sort (upper case before lower case).
TextsAscending == <<"", "Acme", "Acme contractor", "Analyst", "Engineer", "Globex", "NYC", "Remote">>

SortFields == {"createdAt", "updatedAt", "applicationDate", "title", "company"}

PageMin == 1

PageLimitMin == 1

PageLimitMax == 100

PageLimitDefault == 20

\* The value a sort compares, as a number.
SortValue(job, field) ==
    CASE field = "title"   -> Rank(TextsAscending, job.title)
      [] field = "company" -> Rank(TextsAscending, job.company)
      [] OTHER             -> job[field]

\* The validators of GET /api/jobs: the parameters that fail theirs.
ListErrors(q) ==
    {f \in {"status", "sortBy", "sortOrder", "page", "limit"} :
        CASE f = "status"    -> ~OptionalIsIn(q.status, Statuses)
          [] f = "sortBy"    -> ~OptionalIsIn(q.sortBy, SortFields)
          [] f = "sortOrder" -> ~OptionalIsIn(q.sortOrder, {"asc", "desc"})
          [] f = "page"      -> ~(q.page.kind = "absent"
                                    \/ (q.page.kind = "int" /\ q.page.val >= PageMin))
          [] f = "limit"     -> ~OptionalIsInt(q.limit, PageLimitMin, PageLimitMax)}

\* A query that starts empty instead of with the user.
ListFilterAnyUser(store, caller, q) ==
    {i \in DOMAIN store :
        /\ q.status.kind = "text" => store[i].status = q.status.text
        /\ q.search.kind = "text" =>
              \/ RegexMatches(store[i].title, q.search.text)
              \/ RegexMatches(store[i].company, q.search.text)
              \/ RegexMatches(store[i].location, q.search.text)
              \/ RegexMatches(store[i].description, q.search.text)}

\* const query = { user }; query.status = status; query.$or = [the four regexes]
ListFilter(store, caller, q) ==
    {i \in OwnedBy(store, caller) :
        /\ q.status.kind = "text" => store[i].status = q.status.text
        /\ q.search.kind = "text" =>
              \/ RegexMatches(store[i].title, q.search.text)
              \/ RegexMatches(store[i].company, q.search.text)
              \/ RegexMatches(store[i].location, q.search.text)
              \/ RegexMatches(store[i].description, q.search.text)}

\* The orders .sort({ [sortBy]: sortOrder === 'asc' ? 1 : -1 }) may deliver.
ListOrders(store, caller, q) ==
    LET field == IF q.sortBy.kind = "text" THEN q.sortBy.text ELSE "updatedAt"
        asc   == q.sortOrder.kind = "text" /\ q.sortOrder.text = "asc"
        ids   == ListFilter(store, caller, q)
        Before(a, b) == IF asc
                        THEN SortValue(store[a], field) < SortValue(store[b], field)
                        ELSE SortValue(store[a], field) > SortValue(store[b], field)
    IN  SortOrders(ids, {p \in ids \X ids : Before(p[1], p[2])})

\* Math.ceil(total / limit)
Ceil(total, limit) == (total + limit - 1) \div limit

ListResponse(store, caller, q, t, order) ==
    IF ListErrors(q) # {}
    THEN ValidationFailed("jobs", caller, q, t, ListErrors(q))
    ELSE LET page  == IF q.page.kind = "int" THEN q.page.val ELSE 1
             limit == IF q.limit.kind = "int" THEN q.limit.val ELSE PageLimitDefault
             skip  == (page - 1) * limit
             found == SubSeq(order, skip + 1, Min(skip + limit, Len(order)))
             total == Cardinality(ListFilter(store, caller, q))
         IN  [endpoint |-> "jobs", caller |-> caller, query |-> q, time |-> t,
              status |-> 200, success |-> TRUE, storeCalls |-> 2,
              body |-> [jobs |-> [n \in 1..Len(found) |->
                                    [_id |-> found[n], job |-> store[found[n]]]],
                        pagination |-> [page |-> page, limit |-> limit, total |-> total,
                                        pages |-> Ceil(total, limit)]]]

JobError(endpoint, caller, id, t, code, calls) ==
    [endpoint |-> endpoint, caller |-> caller, id |-> id, time |-> t,
     status |-> code, success |-> FALSE, storeCalls |-> calls]

JobOk(endpoint, caller, id, t, code, calls) ==
    [endpoint |-> endpoint, caller |-> caller, id |-> id, time |-> t,
     status |-> code, success |-> TRUE, storeCalls |-> calls]

FollowUpDays == 7

\* The pre('save') hook: an interviewing job without followUpDate gets one.
PreSave(job, t) ==
    IF job.status = "interviewing" /\ job.followUpDate = NoDate
    THEN [job EXCEPT !.followUpDate = t + FollowUpDays]
    ELSE job

\* Job.create({ ...req.body, user }): the schema's defaults, then the save hook.
NewJob(caller, body, t) ==
    PreSave([user            |-> caller,
             title           |-> body.title,
             company         |-> body.company,
             location        |-> body.location,
             description     |-> body.description,
             status          |-> IF body.status = Undefined THEN "applied" ELSE body.status,
             applicationDate |-> body.applicationDate,
             followUpDate    |-> body.followUpDate,
             interviewDates  |-> body.interviewDates,
             createdAt       |-> t,
             updatedAt       |-> t], t)

Put(store, id, job) == [i \in DOMAIN store \cup {id} |-> IF i = id THEN job ELSE store[i]]

Remove(store, id) == [i \in DOMAIN store \ {id} |-> store[i]]

\* job.updateStatus(newStatus)
UpdateStatus(job, newStatus, t) ==
    LET set == [job EXCEPT !.status = newStatus, !.updatedAt = t]
        due == IF newStatus = "interviewing" /\ set.followUpDate = NoDate
               THEN [set EXCEPT !.followUpDate = t + FollowUpDays]
               ELSE set
    IN  PreSave(due, t)

\* A push that sets the status to interviewing whatever it was.
PushInterviewAnyStatus(job, type, outcome, t) ==
    LET pushed == [job EXCEPT !.interviewDates =
                       Append(@, [type |-> type,
                                  outcome |-> IF outcome = Undefined THEN "pending" ELSE outcome])]
    IN  PreSave([pushed EXCEPT !.status = "interviewing", !.updatedAt = t], t)

\* job.interviewDates.push(...); applied becomes interviewing; job.save()
PushInterview(job, type, outcome, t) ==
    LET pushed == [job EXCEPT !.interviewDates =
                       Append(@, [type |-> type,
                                  outcome |-> IF outcome = Undefined THEN "pending" ELSE outcome])]
        moved  == IF pushed.status = "applied"
                  THEN [pushed EXCEPT !.status = "interviewing"]
                  ELSE pushed
    IN  PreSave([moved EXCEPT !.updatedAt = t], t)

\* An owner check that lets every caller pass.
IsOwnerAlways(job, caller) == TRUE

\* job.user.toString() === req.user._id.toString()
IsOwner(job, caller) == job.user = caller

\* new AppError(message, statusCode): the error carries the status code it was
\* made with.
AppError(message, statusCode) == [message |-> message, statusCode |-> statusCode]

\* An error of the store or the driver: it carries no status code.
StoreError == [message |-> "store failure"]

\* An error handler that answers with success.
ErrorHandlerMasking(err) ==
    [status  |-> 200,
     success |-> TRUE,
     message |-> err.message]

\* The global error handler: err.statusCode || 500, success false.
ErrorHandler(err) ==
    [status  |-> IF "statusCode" \in DOMAIN err THEN err.statusCode ELSE 500,
     success |-> FALSE,
     message |-> err.message]

\* asyncHandler: an error thrown by the handler goes to the error handler, whose
\* response ends the request.
Thrown(endpoint, caller, id, t, err, calls) ==
    JobError(endpoint, caller, id, t, ErrorHandler(err).status, calls)

\* The validators of PUT /api/jobs/:id on the fields the body carries: title
\* and company of 1 to 100 characters, status one of the enum.
PutErrors(body) ==
    {f \in DOMAIN body :
        \/ f \in {"title", "company"} /\ body[f] = ""
        \/ f = "status" /\ body[f] \notin Statuses}

\* Job.findByIdAndUpdate(id, req.body, { new: true, runValidators: true }): the
\* fields of the body are set, the timestamp is renewed, no save hook runs.
FindByIdAndUpdate(job, body, t) ==
    [k \in DOMAIN job |->
        IF k \in DOMAIN body THEN body[k]
        ELSE IF k = "updatedAt" THEN t
        ELSE job[k]]

(***************************************************************************)
(* The requests.  Each action is one request handled to its response; res  *)
(* is the response last sent.                                              *)
(***************************************************************************)
NoResponse == [endpoint |-> "none", status |-> 0, storeCalls |-> 0]

\* GET /api/analytics/stats
GetStats(caller) ==
    /\ res' = StatsResponse(jobs, caller, now)
    /\ UNCHANGED <<jobs, nextId, now, inflight, users>>

\* GET /api/analytics/timeline?months=q
GetTimeline(caller, q) ==
    /\ res' = TimelineResponse(jobs, caller, q, now)
    /\ UNCHANGED <<jobs, nextId, now, inflight, users>>

\* GET /api/analytics/companies?limit=q
GetCompanies(caller, q) ==
    /\ \E order \in CompanyOrders(jobs, caller) :
          res' = CompaniesResponse(jobs, caller, q, now, order)
    /\ UNCHANGED <<jobs, nextId, now, inflight, users>>

\* GET /api/analytics/locations
GetLocations(caller) ==
    /\ \E order \in LocationOrders(jobs, caller) :
          res' = LocationsResponse(jobs, caller, now, order)
    /\ UNCHANGED <<jobs, nextId, now, inflight, users>>

\* GET /api/analytics/interviews
GetInterviews(caller) ==
    /\ res' = InterviewsResponse(jobs, caller, now)
    /\ UNCHANGED <<jobs, nextId, now, inflight, users>>

\* GET /api/analytics/trends?period=q
GetTrends(caller, q) ==
    /\ res' = TrendsResponse(jobs, caller, q, now)
    /\ UNCHANGED <<jobs, nextId, now, inflight, users>>

\* GET /api/jobs?status&search&sortBy&sortOrder&page&limit
GetJobs(caller, q) ==
    /\ \E order \in (IF ListErrors(q) = {} THEN ListOrders(jobs, caller, q) ELSE {<<>>}) :
          res' = ListResponse(jobs, caller, q, now, order)
    /\ UNCHANGED <<jobs, nextId, now, inflight, users>>

\* POST /api/jobs
CreateJob(caller, body) ==
    /\ nextId <= MaxJobs
    /\ IF body.status \notin Statuses \cup {Undefined}
       THEN /\ res' = ValidationFailed("create", caller, Absent, now, {"status"})
            /\ UNCHANGED <<jobs, nextId>>
       ELSE /\ jobs' = Put(jobs, nextId, NewJob(caller, body, now))
            /\ nextId' = nextId + 1
            /\ res' = JobOk("create", caller, nextId, now, 201, 1)
    /\ UNCHANGED <<now, inflight, users>>

\* PATCH /api/jobs/:id/status
PatchStatus(caller, id, status) ==
    /\ IF status \notin Statuses
       THEN /\ res' = ValidationFailed("status", caller, Absent, now, {"status"})
            /\ UNCHANGED jobs
       ELSE IF id \notin DOMAIN jobs
       THEN /\ res' = Thrown("status", caller, id, now, AppError("Job not found", 404), 1)
            /\ UNCHANGED jobs
       ELSE IF ~IsOwner(jobs[id], caller)
       THEN /\ res' = Thrown("status", caller, id, now,
                             AppError("Not authorized to update this job", 403), 1)
            /\ UNCHANGED jobs
       ELSE /\ jobs' = Put(jobs, id, UpdateStatus(jobs[id], status, now))
            /\ res' = JobOk("status", caller, id, now, 200, 2)
    /\ UNCHANGED <<nextId, now, inflight, users>>

\* The interview entries the collection holds.
TotalInterviews(store) == Cardinality(Unwind(store, DOMAIN store))

\* POST /api/jobs/:id/interviews
AddInterview(caller, id, type, outcome) ==
    /\ TotalInterviews(jobs) < MaxInterviews
    /\ IF type \notin InterviewTypes \/ outcome \notin Outcomes \cup {Undefined}
       THEN /\ res' = ValidationFailed("interview", caller, Absent, now,
                                       {f \in {"type", "outcome"} :
                                           \/ f = "type" /\ type \notin InterviewTypes
                                           \/ f = "outcome" /\ outcome \notin Outcomes \cup {Undefined}})
            /\ UNCHANGED jobs
       ELSE IF id \notin DOMAIN jobs
       THEN /\ res' = Thrown("interview", caller, id, now, AppError("Job not found", 404), 1)
            /\ UNCHANGED jobs
       ELSE IF ~IsOwner(jobs[id], caller)
       THEN /\ res' = Thrown("interview", caller, id, now,
                             AppError("Not authorized to update this job", 403), 1)
            /\ UNCHANGED jobs
       ELSE /\ jobs' = Put(jobs, id, PushInterview(jobs[id], type, outcome, now))
            /\ res' = JobOk("interview", caller, id, now, 200, 2)
    /\ UNCHANGED <<nextId, now, inflight, users>>

\* DELETE /api/jobs/:id
DeleteJob(caller, id) ==
    /\ IF id \notin DOMAIN jobs
       THEN /\ res' = JobError("delete", caller, id, now, 404, 1)
            /\ UNCHANGED jobs
       ELSE IF ~IsOwner(jobs[id], caller)
       THEN /\ res' = JobError("delete", caller, id, now, 403, 1)
            /\ UNCHANGED jobs
       ELSE /\ jobs' = Remove(jobs, id)
            /\ res' = JobOk("delete", caller, id, now, 200, 2)
    /\ UNCHANGED <<nextId, now, inflight, users>>

\* PUT /api/jobs/:id
UpdateJob(caller, id, body) ==
    /\ IF PutErrors(body) # {}
       THEN /\ res' = ValidationFailed("put", caller, Absent, now, PutErrors(body))
            /\ UNCHANGED jobs
       ELSE IF id \notin DOMAIN jobs
       THEN /\ res' = Thrown("put", caller, id, now, AppError("Job not found", 404), 1)
            /\ UNCHANGED jobs
       ELSE IF ~IsOwner(jobs[id], caller)
       THEN /\ res' = Thrown("put", caller, id, now,
                             AppError("Not authorized to update this job", 403), 1)
            /\ UNCHANGED jobs
       ELSE /\ jobs' = Put(jobs, id, FindByIdAndUpdate(jobs[id], body, now))
            /\ res' = JobOk("put", caller, id, now, 200, 2)
    /\ UNCHANGED <<nextId, now, inflight, users>>

\* The response of an analytics request whose store call rejects with err, given
\* the response r it sends when the call succeeds: a request that fails its
\* validators is answered before the call; otherwise the error leaves the
\* handler after the one call and the error handler answers.
StoreFailure(r, err) ==
    IF r.storeCalls = 0 THEN r
    ELSE [endpoint |-> r.endpoint, caller |-> r.caller, query |-> r.query, time |-> r.time,
          storeCalls |-> 1, thrown |-> err] @@ ErrorHandler(err)

\* GET /api/analytics/<view> while Job.aggregate rejects.
GetAnalyticsFailing(view, caller, q) ==
    /\ res' = StoreFailure(
                  CASE view = "stats"      -> StatsResponse(jobs, caller, now)
                    [] view = "timeline"   -> TimelineResponse(jobs, caller, q, now)
                    [] view = "companies"  -> CompaniesResponse(jobs, caller, q, now, <<>>)
                    [] view = "locations"  -> LocationsResponse(jobs, caller, now, <<>>)
                    [] view = "interviews" -> InterviewsResponse(jobs, caller, now)
                    [] view = "trends"     -> TrendsResponse(jobs, caller, q, now),
                  StoreError)
    /\ UNCHANGED <<jobs, nextId, now, inflight, users>>

\* GET /api/jobs/:id
GetJob(caller, id) ==
    /\ IF id \notin DOMAIN jobs
       THEN res' = Thrown("job", caller, id, now, AppError("Job not found", 404), 1)
       ELSE IF ~IsOwner(jobs[id], caller)
       THEN res' = Thrown("job", caller, id, now,
                          AppError("Not authorized to access this job", 403), 1)
       ELSE res' = JobOk("job", caller, id, now, 200, 1) @@ [body |-> jobs[id]]
    /\ UNCHANGED <<jobs, nextId, now, inflight, users>>

JobIds == 1..MaxJobs

\* A request body of POST /api/jobs with the fields the model keeps.
Body(title, company, location, description, status, applicationDate, interviews) ==
    [title |-> title, company |-> company, location |-> location,
     description |-> description, status |-> status,
     applicationDate |-> applicationDate, followUpDate |-> NoDate,
     interviewDates |-> interviews]

\* 2024-06-15
Today == MakeDay(2024, 5, 15)

(***************************************************************************)
(* Status counts: jobs of both users in every status, created and deleted, *)
(* and the stats of either user.                                           *)
(***************************************************************************)
InitStats == jobs = <<>> /\ nextId = 1 /\ now = Today /\ res = NoResponse
    /\ inflight = <<>> /\ users = <<>>

NextStats ==
    \/ \E u \in Users, s \in Statuses \cup {Undefined, "hired"} :
          CreateJob(u, Body("Engineer", "Acme", "NYC", Undefined, s, Today - 3, <<>>))
    \/ \E u \in Users, i \in JobIds : DeleteJob(u, i)
    \/ \E u \in Users : GetStats(u)

SpecStats == InitStats /\ [][NextStats]_vars

CountOf(store, caller, s) == Cardinality(WithStatus(store, OwnedBy(store, caller), s))

\* C1: in every stats response the five per-status counts sum to the reported
\* total, and the total is the number of records the caller owns.
C1_StatsSumToTotal ==
    (res.endpoint = "stats" /\ res.status = 200) =>
        /\ SumOver(Statuses, [s \in Statuses |-> res.body[s]]) = res.body["total"]
        /\ res.body["total"] = Cardinality(OwnedBy(jobs, res.caller))

\* A stats response to a caller with two records in different statuses while the
\* other user has a record too.
C1_Witness ==
    /\ res.endpoint = "stats"
    /\ res.body["total"] = 2
    /\ Cardinality({jobs[i].status : i \in OwnedBy(jobs, res.caller)}) = 2
    /\ \E i \in DOMAIN jobs : jobs[i].user # res.caller

\* C4: every stats response carries exactly total and the five statuses, each
\* status with the number of the caller's records in it, 0 for a status with none.
C4_AllStatusKeysPresent ==
    (res.endpoint = "stats" /\ res.status = 200) =>
        /\ DOMAIN res.body = {"total"} \cup Statuses
        /\ \A s \in Statuses : res.body[s] = CountOf(jobs, res.caller, s)
        /\ \A k \in DOMAIN res.body : res.body[k] \in Nat

\* The caller's records are [applied, interviewing, offered]: total 3 and one
\* each, rejected 0 and withdrawn 0.
C4_Witness ==
    /\ res.endpoint = "stats"
    /\ res.body = [total |-> 3, applied |-> 1, interviewing |-> 1, offered |-> 1,
                   rejected |-> 0, withdrawn |-> 0]
    /\ Cardinality(OwnedBy(jobs, res.caller)) = 3

(***************************************************************************)
(* Interview performance: jobs of both users, interviews of two types and  *)
(* every outcome added to them, and the interview view of either user.     *)
(***************************************************************************)
InitInterviews == jobs = <<>> /\ nextId = 1 /\ now = Today /\ res = NoResponse
    /\ inflight = <<>> /\ users = <<>>

InterviewInputs ==
    {<<"phone", "passed">>, <<"phone", "failed">>, <<"phone", Undefined>>,
     <<"video", "pending">>, <<"video", "passed">>, <<"chat", "passed">>}

NextInterviews ==
    \/ /\ nextId < MaxJobs
       /\ \E u \in Users :
             CreateJob(u, Body("Engineer", "Acme", "NYC", Undefined, Undefined, Today - 3, <<>>))
    \/ \E u \in Users, i \in JobIds, e \in InterviewInputs : AddInterview(u, i, e[1], e[2])
    \/ \E u \in Users : GetInterviews(u)

SpecInterviews == InitInterviews /\ [][NextInterviews]_vars

\* r is num / den rounded to the nearest integer, a half going up.
IsRounded(r, num, den) == 2 * r * den <= 2 * num + den /\ 2 * num + den < 2 * (r + 1) * den

\* The interview entries of the caller's records, by type and by outcome.
EntriesOf(store, caller) ==
    {u \in (DOMAIN store) \X (1..MaxInterviews) :
        store[u[1]].user = caller /\ u[2] <= Len(store[u[1]].interviewDates)}

EntriesOfType(store, caller, ty) ==
    {u \in EntriesOf(store, caller) : store[u[1]].interviewDates[u[2]].type = ty}

EntriesWith(store, caller, ty, oc) ==
    {u \in EntriesOfType(store, caller, ty) : store[u[1]].interviewDates[u[2]].outcome = oc}

\* C5: in every interviews response each type's total is the number of the
\* caller's interview entries of that type and is passed + failed + pending, a
\* type is reported exactly when the caller has an entry of it, and the totals
\* add up to the number of the caller's interview entries.
C5_InterviewEntriesAreUnits ==
    (res.endpoint = "interviews" /\ res.status = 200) =>
        /\ DOMAIN res.body = {ty \in InterviewTypes : EntriesOfType(jobs, res.caller, ty) # {}}
        /\ \A ty \in DOMAIN res.body :
              /\ res.body[ty].total = Cardinality(EntriesOfType(jobs, res.caller, ty))
              /\ res.body[ty].total
                    = res.body[ty].passed + res.body[ty].failed + res.body[ty].pending
        /\ SumOver(DOMAIN res.body, [ty \in DOMAIN res.body |-> res.body[ty].total])
              = Cardinality(EntriesOf(jobs, res.caller))

\* An interviews response to a caller one of whose records holds two entries of
\* different types and who has fewer records than entries, the other user
\* having an entry too.
C5_Witness ==
    /\ res.endpoint = "interviews"
    /\ \E i \in OwnedBy(jobs, res.caller) :
          /\ Len(jobs[i].interviewDates) = 2
          /\ jobs[i].interviewDates[1].type # jobs[i].interviewDates[2].type
    /\ Cardinality(EntriesOf(jobs, res.caller)) > Cardinality(OwnedBy(jobs, res.caller))
    /\ \E i \in DOMAIN jobs : jobs[i].user # res.caller /\ Len(jobs[i].interviewDates) > 0

\* C6: in every interviews response each type's successRate is 100 * passed /
\* total rounded to 2 decimals (in hundredths), with passed, failed and pending
\* the numbers of the caller's entries of the type with that outcome.
C6_InterviewSuccessRate ==
    (res.endpoint = "interviews" /\ res.status = 200) =>
        \A ty \in DOMAIN res.body :
            LET st == res.body[ty]
            IN  /\ \A oc \in Outcomes :
                      st[oc] = Cardinality(EntriesWith(jobs, res.caller, ty, oc))
                /\ st.total > 0 =>
                      IsRounded(st.successRate, 100 * 100 * st.passed, st.total)
                /\ st.total = 0 => st.successRate = 0

\* Phone interviews with outcomes [passed, passed, pending]: total 3, passed 2,
\* failed 0, pending 1, successRate 66.67.
C6_Witness ==
    /\ res.endpoint = "interviews"
    /\ "phone" \in DOMAIN res.body
    /\ res.body["phone"] = [total |-> 3, passed |-> 2, failed |-> 0, pending |-> 1,
                            successRate |-> 6667]

(***************************************************************************)
(* Per-group success view: jobs at two companies and several locations,    *)
(* and the company and location views of either user.                      *)
(***************************************************************************)
InitGroups == jobs = <<>> /\ nextId = 1 /\ now = Today /\ res = NoResponse
    /\ inflight = <<>> /\ users = <<>>

\* <<company, location, days since the application>>
GroupInputs ==
    {<<"Acme", "NYC", 3>>, <<"Acme", "", 10>>, <<"Globex", "NYC", 4>>,
     <<"Globex", Undefined, -2>>}

NextGroups ==
    \/ \E g \in GroupInputs, s \in {"offered", "interviewing", "rejected"} :
          CreateJob("u1", Body("Engineer", g[1], g[2], Undefined, s, Today - g[3], <<>>))
    \/ \E s \in {"offered", "rejected"} :
          CreateJob("u2", Body("Analyst", "Acme", "NYC", Undefined, s, Today - 5, <<>>))
    \/ \E u \in Users, q \in {Absent, IntParam(1), IntParam(2)} : GetCompanies(u, q)
    \/ \E u \in Users : GetLocations(u)

SpecGroups == InitGroups /\ [][NextGroups]_vars

\* The caller's records that succeeded, among ids.
Successes(store, ids) == {i \in ids : store[i].status \in {"offered", "interviewing"}}

\* The rate is 100 * successes / total rounded to 2 decimals (in hundredths),
\* within [0, 100], and 0 for an empty group.
IsSuccessRate(rate, store, ids) ==
    /\ Cardinality(ids) > 0 =>
          IsRounded(rate, 100 * 100 * Cardinality(Successes(store, ids)), Cardinality(ids))
    /\ Cardinality(ids) = 0 => rate = 0
    /\ 0 <= rate /\ rate <= 100 * 100

\* C3: every entry of a companies or locations response reports the number of
\* the caller's records of that company (location) as totalApplications and
\* 100 * (those offered or interviewing) / total, rounded to 2 decimals, as
\* successRate, which lies in [0, 100] and is 0 for a total of 0.
C3_GroupSuccessRate ==
    /\ (res.endpoint = "companies" /\ res.status = 200) =>
          \A n \in 1..Len(res.body) :
              LET ids == {i \in OwnedBy(jobs, res.caller) : jobs[i].company = res.body[n].company}
              IN  /\ res.body[n].totalApplications = Cardinality(ids)
                  /\ IsSuccessRate(res.body[n].successRate, jobs, ids)
    /\ (res.endpoint = "locations" /\ res.status = 200) =>
          \A n \in 1..Len(res.body) :
              LET ids == {i \in OwnedBy(jobs, res.caller) : jobs[i].location = res.body[n].location}
              IN  /\ res.body[n].totalApplications = Cardinality(ids)
                  /\ IsSuccessRate(res.body[n].successRate, jobs, ids)

\* A companies response in which Acme has the two records [offered, rejected] of
\* the caller and reports 50.00, the other user having an Acme record too.
C3_Witness ==
    /\ res.endpoint = "companies" /\ res.status = 200
    /\ \E n \in 1..Len(res.body) :
          /\ res.body[n].company = "Acme"
          /\ res.body[n].totalApplications = 2
          /\ res.body[n].statusBreakdown = [offered |-> 1, rejected |-> 1]
          /\ res.body[n].successRate = 5000
    /\ \E i \in DOMAIN jobs : jobs[i].user # res.caller /\ jobs[i].company = "Acme"

(***************************************************************************)
(* Trends: now is 2024-01-03, so that the week, month and quarter windows  *)
(* reach back into 2023; jobs dated before every window, inside them and   *)
(* after now, and the trends of the first user for every period.           *)
(***************************************************************************)
\* 2024-01-03
TrendsNow == MakeDay(2024, 0, 3)

InitTrends == jobs = <<>> /\ nextId = 1 /\ now = TrendsNow /\ res = NoResponse
    /\ inflight = <<>> /\ users = <<>>

\* <<applicationDate, status>>: 2023-01-01 lies before every window, 2023-11-20
\* in the quarter and year windows, 2023-12-28 and 2024-01-02 in all four, and
\* 2024-02-10 after now.
TrendInputs ==
    {<<MakeDay(2023, 0, 1), "applied">>,
     <<MakeDay(2023, 10, 20), "interviewing">>, <<MakeDay(2023, 10, 20), "offered">>,
     <<MakeDay(2023, 11, 28), "applied">>, <<MakeDay(2023, 11, 28), "interviewing">>,
     <<MakeDay(2023, 11, 28), "offered">>, <<MakeDay(2023, 11, 28), "rejected">>,
     <<MakeDay(2024, 0, 2), "interviewing">>, <<MakeDay(2024, 0, 2), "offered">>,
     <<MakeDay(2024, 1, 10), "applied">>, <<MakeDay(2024, 1, 10), "offered">>}

NextTrends ==
    \/ \E e \in TrendInputs :
          CreateJob("u1", Body("Engineer", "Acme", "NYC", Undefined, e[2], e[1], <<>>))
    \/ CreateJob("u2", Body("Analyst", "Globex", "NYC", Undefined, "offered",
                            MakeDay(2023, 11, 28), <<>>))
    \/ \E q \in {Absent} \cup {TextParam(p) : p \in Periods \cup {"day"}} : GetTrends("u1", q)

SpecTrends == InitTrends /\ [][NextTrends]_vars

\* The records the trends pipeline of the response puts into the bucket key.
InBucket(startDate, key) ==
    {i \in OwnedBy(jobs, res.caller) :
        /\ jobs[i].applicationDate >= startDate
        /\ TrendsKey(res.body.period, jobs[i]) = key}

\* C9: in every bucket of a trends response the counts are those of the bucket's
\* records and applicationToInterviewRate = 100 * interviewing / total,
\* interviewToOfferRate = 100 * offered / interviewing (0 when interviewing is 0),
\* overallSuccessRate = 100 * offered / total, each rounded to 2 decimals (in
\* hundredths); every rate is a number for every record set.
C9_TrendRates ==
    (res.endpoint = "trends" /\ res.status = 200) =>
        LET startDate == TrendsStart(res.body.period, res.time)
        IN  \A n \in 1..Len(res.body.trends) :
            LET b   == res.body.trends[n]
                ids == InBucket(startDate, b.period)
            IN  /\ b.totalApplications = Cardinality(ids)
                /\ b.interviewing = Cardinality(WithStatus(jobs, ids, "interviewing"))
                /\ b.offered = Cardinality(WithStatus(jobs, ids, "offered"))
                /\ b.totalApplications > 0
                /\ IsRounded(b.applicationToInterviewRate,
                             100 * 100 * b.interviewing, b.totalApplications)
                /\ IsRounded(b.overallSuccessRate, 100 * 100 * b.offered, b.totalApplications)
                /\ b.interviewing > 0 =>
                      IsRounded(b.interviewToOfferRate, 100 * 100 * b.offered, b.interviewing)
                /\ b.interviewing = 0 => b.interviewToOfferRate = 0
                /\ {b.applicationToInterviewRate, b.interviewToOfferRate,
                    b.overallSuccessRate} \subseteq Nat

\* A trends response with a bucket of three records, one applied, one
\* interviewing and one offered: the rates are 33.33, 100.00 and 33.33.
C9_Witness ==
    /\ res.endpoint = "trends" /\ res.status = 200
    /\ \E n \in 1..Len(res.body.trends) :
          /\ res.body.trends[n].totalApplications = 3
          /\ res.body.trends[n].interviewing = 1
          /\ res.body.trends[n].offered = 1
          /\ res.body.trends[n].applicationToInterviewRate = 3333
          /\ res.body.trends[n].interviewToOfferRate = 10000
          /\ res.body.trends[n].overallSuccessRate = 3333

\* C10: a trends response counts only the caller's records dated within the
\* lookback window, from the window's start to now: the buckets together hold as
\* many records as the caller has in the window.
C10_TrendsWithinLookback ==
    (res.endpoint = "trends" /\ res.status = 200) =>
        SumOver(1..Len(res.body.trends),
                [n \in 1..Len(res.body.trends) |-> res.body.trends[n].totalApplications])
            = LET startDate == TrendsStart(res.body.period, res.time)
              IN  Cardinality({i \in OwnedBy(jobs, res.caller) :
                                 /\ startDate <= jobs[i].applicationDate
                                 /\ jobs[i].applicationDate <= res.time})

\* C14: in every trends response the period values (the bucket keys) of
\* consecutive entries are strictly increasing.
C14_TrendBucketsAscending ==
    (res.endpoint = "trends" /\ res.status = 200) =>
        \A n \in 1..(Len(res.body.trends) - 1) :
            res.body.trends[n].period < res.body.trends[n + 1].period

\* A trends response of three buckets.
C14_Witness ==
    /\ res.endpoint = "trends" /\ res.status = 200
    /\ Len(res.body.trends) = 3

(***************************************************************************)
(* All six views: jobs of both users that differ in company, location,     *)
(* status, date and interviews, and every view of either user.             *)
(***************************************************************************)
InitViews == jobs = <<>> /\ nextId = 1 /\ now = Today /\ res = NoResponse
    /\ inflight = <<>> /\ users = <<>>

\* <<company, location, status, days since the application, interviews>>
ViewInputs ==
    {<<"Acme", "NYC", "offered", 2, <<>>>>,
     <<"Acme", "", "rejected", 40, <<[type |-> "phone", outcome |-> "passed"]>>>>,
     <<"Globex", Undefined, "interviewing", 2,
       <<[type |-> "phone", outcome |-> "passed"], [type |-> "video", outcome |-> "failed"]>>>>,
     <<"Globex", "Remote", "applied", -5, <<>>>>}

NextViews ==
    \/ \E u \in Users, v \in ViewInputs :
          CreateJob(u, Body("Engineer", v[1], v[2], Undefined, v[3], Today - v[4], v[5]))
    \/ \E u \in Users : GetStats(u)
    \/ \E u \in Users, q \in {Absent, IntParam(1)} : GetTimeline(u, q)
    \/ \E u \in Users, q \in {Absent, IntParam(1)} : GetCompanies(u, q)
    \/ \E u \in Users : GetLocations(u)
    \/ \E u \in Users : GetInterviews(u)
    \/ \E u \in Users, q \in {Absent, TextParam("week"), TextParam("year")} : GetTrends(u, q)

SpecViews == InitViews /\ [][NextViews]_vars

Views == {"stats", "timeline", "companies", "locations", "interviews", "trends"}

\* The collection without the documents of the other users.
WithoutOthers(store, caller) ==
    [i \in {j \in DOMAIN store : store[j].user = caller} |-> store[i]]

\* C2: every analytics response is the response the same request gets from the
\* collection with the records of all other users removed: the records of other
\* users change no view of the caller and are counted in none.
C2_ScopedToCaller ==
    res.endpoint \in Views =>
        LET own == WithoutOthers(jobs, res.caller)
        IN  CASE res.endpoint = "stats" ->
                    res = StatsResponse(own, res.caller, res.time)
              [] res.endpoint = "timeline" ->
                    res = TimelineResponse(own, res.caller, res.query, res.time)
              [] res.endpoint = "companies" ->
                    \E order \in CompanyOrders(own, res.caller) :
                        res = CompaniesResponse(own, res.caller, res.query, res.time, order)
              [] res.endpoint = "locations" ->
                    \E order \in LocationOrders(own, res.caller) :
                        res = LocationsResponse(own, res.caller, res.time, order)
              [] res.endpoint = "interviews" ->
                    res = InterviewsResponse(own, res.caller, res.time)
              [] res.endpoint = "trends" ->
                    res = TrendsResponse(own, res.caller, res.query, res.time)

\* A companies response to a caller with a record, the other user having two
\* records, one of them at a company the caller has none at.
C2_Witness ==
    /\ res.endpoint = "companies" /\ res.status = 200
    /\ Len(res.body) = 1
    /\ Cardinality({i \in DOMAIN jobs : jobs[i].user # res.caller}) = 2
    /\ \E i \in DOMAIN jobs : jobs[i].user # res.caller /\ jobs[i].company # res.body[1].company

\* The parameter of a view is in the range the interface documents.
ValidViewQuery(endpoint, q) ==
    CASE endpoint = "timeline"  -> q.kind = "absent" \/ (q.kind = "int" /\ q.val \in 1..24)
      [] endpoint = "companies" -> q.kind = "absent" \/ (q.kind = "int" /\ q.val \in 1..50)
      [] endpoint = "trends"    ->
            q.kind = "absent" \/ (q.kind = "text" /\ q.text \in {"week", "month", "quarter", "year"})
      [] OTHER -> TRUE

\* C7: a caller who owns no record gets from every view a success with
\* zero-valued aggregates: stats all 0, the timeline, company, location and trend
\* lists empty, the interview object without a type.
C7_EmptyInput ==
    (/\ res.endpoint \in Views
     /\ {i \in DOMAIN jobs : jobs[i].user = res.caller} = {}
     /\ ValidViewQuery(res.endpoint, res.query)) =>
        /\ res.status = 200 /\ res.success
        /\ CASE res.endpoint = "stats" ->
                    res.body = [k \in {"total"} \cup Statuses |-> 0]
             [] res.endpoint = "trends" -> res.body.trends = <<>>
             [] res.endpoint = "interviews" -> DOMAIN res.body = {}
             [] OTHER -> res.body = <<>>

\* A trends response to a caller without records, the other user having two
\* records inside the window.
C7_Witness ==
    /\ res.endpoint = "trends" /\ res.status = 200
    /\ {i \in DOMAIN jobs : jobs[i].user = res.caller} = {}
    /\ Cardinality({i \in DOMAIN jobs : jobs[i].applicationDate >= res.time - 7
                                        /\ jobs[i].applicationDate <= res.time}) = 2

\* C20: an analytics request changes no job record, and a request that repeats
\* the one before it (same view, caller and parameters, at the same now, the
\* collection unchanged in between) is answered with the same response.
C20_ReadOnlyIdempotent ==
    [][res'.endpoint \in Views =>
          /\ jobs' = jobs
          /\ (/\ res.endpoint = res'.endpoint
              /\ res.caller = res'.caller
              /\ res.query = res'.query
              /\ res.time = res'.time) => res' = res]_vars

(***************************************************************************)
(* Validation: the views and the job list asked with parameters inside and *)
(* outside their ranges.                                                   *)
(***************************************************************************)
InitValidation == jobs = <<>> /\ nextId = 1 /\ now = Today /\ res = NoResponse
    /\ inflight = <<>> /\ users = <<>>

ListFields == {"status", "search", "sortBy", "sortOrder", "page", "limit"}

NoListQuery == [f \in ListFields |-> Absent]

\* The list asked with one parameter, inside or outside its range, and with two
\* parameters of which one, both or none are inside theirs.
ListQueries ==
    {NoListQuery}
    \cup {[NoListQuery EXCEPT !.status = p] : p \in {TextParam("applied"), TextParam("hired")}}
    \cup {[NoListQuery EXCEPT !.search = TextParam("acme")]}
    \cup {[NoListQuery EXCEPT !.sortBy = p] : p \in {TextParam("company"), TextParam("salary")}}
    \cup {[NoListQuery EXCEPT !.sortOrder = p] : p \in {TextParam("asc"), TextParam("up")}}
    \cup {[NoListQuery EXCEPT !.page = p] : p \in {IntParam(2), IntParam(0), TextParam("two")}}
    \cup {[NoListQuery EXCEPT !.limit = p] :
             p \in {IntParam(1), IntParam(100), IntParam(101), IntParam(0), TextParam("all")}}
    \cup {[NoListQuery EXCEPT !.status = TextParam("applied"), !.limit = p] :
             p \in {IntParam(1), IntParam(101)}}
    \cup {[NoListQuery EXCEPT !.sortBy = TextParam("salary"), !.page = IntParam(0)]}

NextValidation ==
    \/ \E u \in Users :
          CreateJob(u, Body("Engineer", "Acme", "NYC", Undefined, Undefined, Today - 3, <<>>))
    \/ \E q \in {Absent, IntParam(1), IntParam(24), IntParam(0), IntParam(25), TextParam("six")} :
          GetTimeline("u1", q)
    \/ \E q \in {Absent, IntParam(1), IntParam(50), IntParam(0), IntParam(51), TextParam("ten")} :
          GetCompanies("u1", q)
    \/ \E q \in {Absent, TextParam("week"), TextParam("day"), TextParam("")} : GetTrends("u1", q)
    \/ \E q \in ListQueries : GetJobs("u1", q)

SpecValidation == InitValidation /\ [][NextValidation]_vars

\* The parameter is not an integer literal within lo..hi.
NotIntWithin(q, lo, hi) == q.kind = "text" \/ (q.kind = "int" /\ q.val \notin lo..hi)

NotOneOf(q, list) == q.kind # "absent" /\ ~(q.kind = "text" /\ q.text \in list)

\* The request of the response carries a parameter outside its range.
InvalidRequest ==
    \/ res.endpoint = "companies" /\ NotIntWithin(res.query, 1, 50)
    \/ res.endpoint = "timeline" /\ NotIntWithin(res.query, 1, 24)
    \/ res.endpoint = "trends" /\ NotOneOf(res.query, {"week", "month", "quarter", "year"})
    \/ /\ res.endpoint = "jobs"
       /\ \/ NotOneOf(res.query.status,
                      {"applied", "interviewing", "offered", "rejected", "withdrawn"})
          \/ NotOneOf(res.query.sortBy,
                      {"createdAt", "updatedAt", "applicationDate", "title", "company"})
          \/ NotOneOf(res.query.sortOrder, {"asc", "desc"})
          \/ res.query.page.kind = "text"
          \/ (res.query.page.kind = "int" /\ res.query.page.val < 1)
          \/ NotIntWithin(res.query.limit, 1, 100)

\* C8: a request with a parameter outside its range is answered 400 with
\* success false, the message 'Validation failed' and the failed parameters,
\* and no call to the job collection was made for it.
C8_RejectedBeforeQuery ==
    InvalidRequest =>
        /\ res.status = 400
        /\ res.success = FALSE
        /\ res.message = "Validation failed"
        /\ res.errors # {}
        /\ res.storeCalls = 0

\* limit=51 on the companies view of a caller with records.
C8_Witness ==
    /\ res.endpoint = "companies"
    /\ res.query = IntParam(51)
    /\ res.status = 400
    /\ \E i \in DOMAIN jobs : jobs[i].user = res.caller

(***************************************************************************)
(* Timeline: now is 2024-06-15; jobs dated before the windows, inside      *)
(* them, in the month a window starts in and after now, and the timeline   *)
(* of the first user for several lookbacks.                                *)
(***************************************************************************)
InitTimeline == jobs = <<>> /\ nextId = 1 /\ now = Today /\ res = NoResponse
    /\ inflight = <<>> /\ users = <<>>

\* <<applicationDate, status>>: 2023-06-01 lies in the 24 month window only,
\* 2023-12-20 in the 6 month window, 2024-05-10 in the month the 1 month window
\* starts in but before its start (2024-05-15), 2024-05-20 and 2024-06-10 in
\* every window, 2024-08-01 and 2025-01-05 after now.
TimelineInputs ==
    {<<MakeDay(2023, 5, 1), "applied">>,
     <<MakeDay(2023, 11, 20), "offered">>,
     <<MakeDay(2024, 4, 10), "applied">>,
     <<MakeDay(2024, 4, 20), "applied">>, <<MakeDay(2024, 4, 20), "rejected">>,
     <<MakeDay(2024, 5, 10), "interviewing">>,
     <<MakeDay(2024, 7, 1), "applied">>,
     <<MakeDay(2025, 0, 5), "applied">>}

NextTimeline ==
    \/ \E e \in TimelineInputs :
          CreateJob("u1", Body("Engineer", "Acme", "NYC", Undefined, e[2], e[1], <<>>))
    \/ CreateJob("u2", Body("Analyst", "Globex", "NYC", Undefined, "offered",
                            MakeDay(2024, 4, 20), <<>>))
    \/ \E q \in {Absent, IntParam(1), IntParam(12), IntParam(24), IntParam(0)} :
          GetTimeline("u1", q)

SpecTimeline == InitTimeline /\ [][NextTimeline]_vars

\* The text "YYYY-MM" of a year of four digits and a month.
PeriodText(y, m) ==
    <<Digit(y \div 1000), Digit((y \div 100) % 10), Digit((y \div 10) % 10), Digit(y % 10),
      "-", Digit(m \div 10), Digit(m % 10)>>

\* The months of the calendar, numbered through the years.
MonthIndex(y, m) == 12 * y + m - 1

\* C11: in every timeline response each entry's period is the text "YYYY-MM" of
\* one calendar month, the months of consecutive entries are strictly ascending
\* (so no two entries share a period), the entry counts the caller's records of
\* that calendar month that the window holds, and every period lies within the
\* lookback: not before the month N months before now, not after now's month.
C11_TimelinePeriods ==
    (res.endpoint = "timeline" /\ res.status = 200) =>
        LET months    == IF res.query.kind = "int" THEN res.query.val ELSE MonthsDefault
            startDate == TimelineStart(res.time, months)
            nowIndex  == MonthIndex(YearOf(res.time), MonthOf(res.time))
            mine      == {i \in DOMAIN jobs : jobs[i].user = res.caller
                                              /\ jobs[i].applicationDate >= startDate}
            index(i)  == MonthIndex(YearOf(jobs[i].applicationDate),
                                    MonthOf(jobs[i].applicationDate))
        IN  \E at \in [1..Len(res.body) -> (nowIndex - months)..nowIndex] :
               /\ \A n \in 1..Len(res.body) :
                     /\ res.body[n].period = PeriodText(at[n] \div 12, (at[n] % 12) + 1)
                     /\ res.body[n].total = Cardinality({i \in mine : index(i) = at[n]})
                     /\ res.body[n].total > 0
               /\ \A n \in 1..(Len(res.body) - 1) : at[n] < at[n + 1]

(***************************************************************************)
(* Ranking of the groups: jobs of the first user at three companies and in *)
(* two locations, some without a location, a job of the second user at a   *)
(* company and in a location of its own, and the company and location      *)
(* views of the first user.                                                *)
(***************************************************************************)
InitRanking == jobs = <<>> /\ nextId = 1 /\ now = Today /\ res = NoResponse
    /\ inflight = <<>> /\ users = <<>>

\* <<company, location>>
RankingInputs ==
    {<<"Acme", "NYC">>, <<"Acme", "Remote">>, <<"Globex", "NYC">>, <<"Globex", "">>,
     <<"Initech", Undefined>>, <<"Initech", "Remote">>}

NextRanking ==
    \/ \E g \in RankingInputs :
          CreateJob("u1", Body("Engineer", g[1], g[2], Undefined, "applied", Today - 3, <<>>))
    \/ CreateJob("u2", Body("Analyst", "Hooli", "Boston", Undefined, "offered", Today - 5, <<>>))
    \/ \E q \in {Absent, IntParam(1), IntParam(2)} : GetCompanies("u1", q)
    \/ GetLocations("u1")

SpecRanking == InitRanking /\ [][NextRanking]_vars

\* The caller's records at the company c.
AtCompany(c) == {i \in DOMAIN jobs : jobs[i].user = res.caller /\ jobs[i].company = c}

\* C12: a companies response lists at most N groups, N the limit parameter or
\* 10 when it is absent (all of the caller's companies when they are at most
\* N), each a different company of the caller with its number of records, in
\* non-increasing order of totalApplications, and no company of the caller that
\* is left out has more records than a listed one.
C12_CompaniesTopN ==
    (res.endpoint = "companies" /\ res.status = 200) =>
        LET limit     == IF res.query.kind = "int" THEN res.query.val ELSE 10
            companies == {jobs[i].company : i \in {j \in DOMAIN jobs : jobs[j].user = res.caller}}
            listed    == {res.body[n].company : n \in 1..Len(res.body)}
        IN  /\ Len(res.body) <= limit
            /\ Len(res.body) = Min(limit, Cardinality(companies))
            /\ listed \subseteq companies
            /\ Cardinality(listed) = Len(res.body)
            /\ \A n \in 1..Len(res.body) :
                  res.body[n].totalApplications = Cardinality(AtCompany(res.body[n].company))
            /\ \A n \in 1..(Len(res.body) - 1) :
                  res.body[n].totalApplications >= res.body[n + 1].totalApplications
            /\ \A c \in companies \ listed, d \in listed :
                  Cardinality(AtCompany(c)) <= Cardinality(AtCompany(d))

\* A companies response with limit 1 that lists the caller's company of two
\* records and leaves out the caller's company of one.
C12_Witness ==
    /\ res.endpoint = "companies" /\ res.status = 200
    /\ res.query = IntParam(1)
    /\ Len(res.body) = 1
    /\ res.body[1].totalApplications = 2
    /\ \E i \in DOMAIN jobs : jobs[i].user = res.caller /\ jobs[i].company # res.body[1].company

\* The caller's records in the location l.
InLocation(l) == {i \in DOMAIN jobs : jobs[i].user = res.caller /\ jobs[i].location = l}

\* C13: a locations response has one group for each location that a record of
\* the caller names, none for the empty or the missing location, each with its
\* number of records (so every record with a location is counted in exactly one
\* group and the others in none), all of them listed, in non-increasing order
\* of totalApplications.
C13_LocationsGroups ==
    (res.endpoint = "locations" /\ res.status = 200) =>
        LET located   == {i \in DOMAIN jobs : /\ jobs[i].user = res.caller
                                              /\ jobs[i].location \notin {"", Undefined}}
            locations == {jobs[i].location : i \in located}
            listed    == {res.body[n].location : n \in 1..Len(res.body)}
        IN  /\ listed = locations
            /\ Len(res.body) = Cardinality(locations)
            /\ \A n \in 1..Len(res.body) :
                  res.body[n].totalApplications = Cardinality(InLocation(res.body[n].location))
            /\ SumOver(1..Len(res.body),
                       [n \in 1..Len(res.body) |-> res.body[n].totalApplications])
                  = Cardinality(located)
            /\ \A n \in 1..(Len(res.body) - 1) :
                  res.body[n].totalApplications >= res.body[n + 1].totalApplications

\* A locations response of two groups to a caller who also has a record with an
\* empty or a missing location.
C13_Witness ==
    /\ res.endpoint = "locations" /\ res.status = 200
    /\ Len(res.body) = 2
    /\ \E i \in DOMAIN jobs : jobs[i].user = res.caller /\ jobs[i].location \in {"", Undefined}

(***************************************************************************)
(* Ownership: jobs of both users, and every request that changes a job,    *)
(* by either user, for every id, with valid and invalid bodies.            *)
(***************************************************************************)
InitOwnership == jobs = <<>> /\ nextId = 1 /\ now = Today /\ res = NoResponse
    /\ inflight = <<>> /\ users = <<>>

\* Bodies of PUT /api/jobs/:id: a status, a status outside the enum, an owner.
OwnershipBodies ==
    {[status |-> "offered"], [status |-> "hired"], [user |-> "u1"], [user |-> "u2"]}

NextOwnership ==
    \/ /\ nextId < MaxJobs
       /\ \E u \in Users :
             CreateJob(u, Body("Engineer", "Acme", "NYC", Undefined, Undefined, Today - 3, <<>>))
    \/ \E u \in Users, i \in JobIds, body \in OwnershipBodies : UpdateJob(u, i, body)
    \/ \E u \in Users, i \in JobIds, s \in {"interviewing", "hired"} : PatchStatus(u, i, s)
    \/ \E u \in Users, i \in JobIds, ty \in {"phone", "chat"} : AddInterview(u, i, ty, Undefined)
    \/ \E u \in Users, i \in JobIds : DeleteJob(u, i)

SpecOwnership == InitOwnership /\ [][NextOwnership]_vars

\* The requests for one job that change it.
Mutating == {"put", "status", "interview", "delete"}

\* C15: a PUT, PATCH status, POST interviews or DELETE request leaves every
\* record that its caller does not own as it was; when its body passes the
\* validators, a request for an id that no record has is answered 404 and one
\* for a record of another user 403, the collection unchanged in both cases.
C15_OnlyOwnerMutates ==
    [][res'.endpoint \in Mutating =>
          /\ \A i \in DOMAIN jobs :
                jobs[i].user # res'.caller => i \in DOMAIN jobs' /\ jobs'[i] = jobs[i]
          /\ res'.status # 400 =>
                /\ res'.id \notin DOMAIN jobs => res'.status = 404 /\ jobs' = jobs
                /\ (res'.id \in DOMAIN jobs /\ jobs[res'.id].user # res'.caller) =>
                      res'.status = 403 /\ jobs' = jobs]_vars

\* A request to change a record of another user was answered 403.
C15_Witness ==
    /\ res.endpoint \in Mutating
    /\ res.status = 403
    /\ res.id \in DOMAIN jobs
    /\ jobs[res.id].user # res.caller

(***************************************************************************)
(* Follow-up date: jobs of one user created as applied or as interviewing, *)
(* every operation that can move a job to interviewing, and days passing   *)
(* between the requests.                                                   *)
(***************************************************************************)
\* The days that pass in the model.
MaxDays == 1

InitFollowUp == jobs = <<>> /\ nextId = 1 /\ now = Today /\ res = NoResponse
    /\ inflight = <<>> /\ users = <<>>

\* A day passes between two requests.
Tick ==
    /\ now < Today + MaxDays
    /\ now' = now + 1
    /\ UNCHANGED <<jobs, nextId, res, inflight, users>>

\* Bodies of PUT /api/jobs/:id: a status, or a follow-up date.
FollowUpBodies ==
    {[status |-> "interviewing"], [status |-> "applied"], [followUpDate |-> Today + 30]}

NextFollowUp ==
    \/ /\ nextId < MaxJobs
       /\ \E s \in {Undefined, "interviewing"} :
             CreateJob("u1", Body("Engineer", "Acme", "NYC", Undefined, s, Today - 3, <<>>))
    \/ \E i \in JobIds, body \in FollowUpBodies : UpdateJob("u1", i, body)
    \/ \E i \in JobIds, s \in {"interviewing", "applied"} : PatchStatus("u1", i, s)
    \/ \E i \in JobIds : AddInterview("u1", i, "phone", Undefined)
    \/ Tick

SpecFollowUp == InitFollowUp /\ [][NextFollowUp]_vars

\* C16: whenever an operation leaves a record interviewing that was not
\* interviewing before it (or did not exist), the record's followUpDate is the
\* one it had, if it had one, and otherwise the day of the operation plus 7; so
\* no interviewing record is without a followUpDate.
C16_FollowUpOnInterviewing ==
    [][\A i \in DOMAIN jobs' :
          (jobs'[i].status = "interviewing"
              /\ (i \notin DOMAIN jobs \/ jobs[i].status # "interviewing")) =>
             jobs'[i].followUpDate =
                 IF i \in DOMAIN jobs /\ jobs[i].followUpDate # NoDate
                 THEN jobs[i].followUpDate
                 ELSE now + 7]_vars

(***************************************************************************)
(* The list: jobs of both users that share titles and companies, the list  *)
(* of the first user filtered, sorted and paged, and single jobs read by   *)
(* either user.                                                            *)
(***************************************************************************)
InitList == jobs = <<>> /\ nextId = 1 /\ now = Today /\ res = NoResponse
    /\ inflight = <<>> /\ users = <<>>

\* <<title, company, status>>
ListInputs ==
    {<<"Engineer", "Acme", "applied">>, <<"Analyst", "Acme", "offered">>,
     <<"Engineer", "Globex", "applied">>}

\* The list by default, filtered by status or by search, and paged under a sort
\* by company (descending, one job a page) or by title (ascending, two a page).
PagedQueries ==
    {NoListQuery,
     [NoListQuery EXCEPT !.status = TextParam("applied")],
     [NoListQuery EXCEPT !.search = TextParam("acme")]}
    \cup {[NoListQuery EXCEPT !.sortBy = TextParam("company"), !.limit = IntParam(1),
                              !.page = p] : p \in {Absent, IntParam(2), IntParam(3)}}
    \cup {[NoListQuery EXCEPT !.sortBy = TextParam("title"), !.sortOrder = TextParam("asc"),
                              !.limit = IntParam(2), !.page = IntParam(p)] : p \in {1, 2}}

NextList ==
    \/ \E e \in ListInputs :
          CreateJob("u1", Body(e[1], e[2], "NYC", Undefined, e[3], Today - 3, <<>>))
    \/ CreateJob("u2", Body("Engineer", "Acme", "NYC", Undefined, "applied", Today - 3, <<>>))
    \/ \E q \in PagedQueries : GetJobs("u1", q)
    \/ \E u \in Users, i \in JobIds : GetJob(u, i)

SpecList == InitList /\ [][NextList]_vars

\* The caller's records that pass the status and search filters of the query.
Filtered(caller, q) ==
    {i \in DOMAIN jobs :
        /\ jobs[i].user = caller
        /\ q.status.kind = "text" => jobs[i].status = q.status.text
        /\ q.search.kind = "text" =>
              \E f \in {"title", "company", "location", "description"} :
                  RegexMatches(jobs[i][f], q.search.text)}

\* C17: a list response holds records of the caller only, each as it is in the
\* collection, and its total is the number of the caller's records that pass
\* the filters; a single job is returned to its owner only, and a request for a
\* record of another user is answered 403 without the record.
C17_RetrievalScopedToOwner ==
    /\ (res.endpoint = "jobs" /\ res.status = 200) =>
          /\ \A n \in 1..Len(res.body.jobs) :
                /\ res.body.jobs[n].job.user = res.caller
                /\ res.body.jobs[n]._id \in Filtered(res.caller, res.query)
                /\ res.body.jobs[n].job = jobs[res.body.jobs[n]._id]
          /\ res.body.pagination.total = Cardinality(Filtered(res.caller, res.query))
    /\ (res.endpoint = "job" /\ res.id \in DOMAIN jobs) =>
          IF jobs[res.id].user = res.caller
          THEN res.status = 200 /\ res.body = jobs[res.id]
          ELSE res.status = 403 /\ "body" \notin DOMAIN res

\* The caller's list, searched for "acme", holds two records while the other
\* user has a record that the search finds too.
C17_Witness ==
    /\ res.endpoint = "jobs" /\ res.status = 200
    /\ res.query.search = TextParam("acme")
    /\ Len(res.body.jobs) = 2
    /\ \E i \in DOMAIN jobs : jobs[i].user # res.caller /\ jobs[i].company = "Acme"

\* The page and the limit a list response answers, with their defaults.
PageOf(r) == IF r.query.page.kind = "int" THEN r.query.page.val ELSE 1

LimitOf(r) == IF r.query.limit.kind = "int" THEN r.query.limit.val ELSE 20

\* The ids of the records a list response holds.
IdsOf(r) == {r.body.jobs[n]._id : n \in 1..Len(r.body.jobs)}

\* The list response r holds at most limit records, those at offset
\* (page - 1) * limit of the caller's filtered records in an order the requested
\* sort allows (updatedAt descending by default), and reports
\* ceil(total / limit) pages.
IsWindow(r) ==
    LET ids    == Filtered(r.caller, r.query)
        field  == IF r.query.sortBy.kind = "text" THEN r.query.sortBy.text ELSE "updatedAt"
        asc    == r.query.sortOrder = TextParam("asc")
        skip   == (PageOf(r) - 1) * LimitOf(r)
        key(i) == IF asc THEN SortValue(jobs[i], field) ELSE 0 - SortValue(jobs[i], field)
    IN  /\ Len(r.body.jobs) <= LimitOf(r)
        /\ \E f \in Enumerations(ids) :
              /\ \A a, b \in 1..Cardinality(ids) : a < b => key(f[a]) <= key(f[b])
              /\ Len(r.body.jobs) = Min(LimitOf(r), Cardinality(ids) - Min(skip, Cardinality(ids)))
              /\ \A n \in 1..Len(r.body.jobs) : r.body.jobs[n]._id = f[skip + n]
        /\ r.body.pagination.pages * LimitOf(r) >= Cardinality(ids)
        /\ (r.body.pagination.pages - 1) * LimitOf(r) < Cardinality(ids)
           \/ (r.body.pagination.pages = 0 /\ ids = {})

\* C18: every list response is the window of its page, and on an unchanging
\* collection two responses to the same caller and the same query but for
\* different pages share no record (the pages partition the filtered records).
C18_PaginationWindow ==
    [][(res'.endpoint = "jobs" /\ res'.status = 200) =>
          /\ IsWindow(res')
          /\ (/\ res.endpoint = "jobs" /\ res.status = 200
              /\ res.caller = res'.caller
              /\ [res.query EXCEPT !.page = Absent] = [res'.query EXCEPT !.page = Absent]
              /\ PageOf(res) # PageOf(res')) =>
                IdsOf(res) \cap IdsOf(res') = {}]_vars

(***************************************************************************)
(* Store failure: jobs of both users, and every analytics view asked while *)
(* the store answers and while its call rejects, with valid and invalid    *)
(* parameters.                                                             *)
(***************************************************************************)
InitFailure == jobs = <<>> /\ nextId = 1 /\ now = Today /\ res = NoResponse
    /\ inflight = <<>> /\ users = <<>>

\* The views with the parameters they are asked with.
FailureRequests ==
    {<<"stats", Absent>>, <<"timeline", Absent>>, <<"timeline", IntParam(25)>>,
     <<"companies", IntParam(1)>>, <<"companies", IntParam(51)>>, <<"locations", Absent>>,
     <<"interviews", Absent>>, <<"trends", TextParam("week")>>, <<"trends", TextParam("day")>>}

NextFailure ==
    \/ \E u \in Users, s \in {"applied", "offered"} :
          CreateJob(u, Body("Engineer", "Acme", "NYC", Undefined, s, Today - 3, <<>>))
    \/ \E u \in Users, r \in FailureRequests : GetAnalyticsFailing(r[1], u, r[2])
    \/ \E u \in Users : GetStats(u)
    \/ \E u \in Users : GetCompanies(u, IntParam(1))

SpecFailure == InitFailure /\ [][NextFailure]_vars

\* C19: an analytics request whose store call failed ends with a server-error
\* status and success false, carries no data, and made that one store call.
C19_StoreFailureSurfaced ==
    (res.endpoint \in Views /\ "thrown" \in DOMAIN res) =>
        /\ res.status >= 500 /\ res.status <= 599
        /\ res.success = FALSE
        /\ "body" \notin DOMAIN res
        /\ res.storeCalls = 1

\* The companies view of a caller who has records, asked with a valid limit,
\* ended with the error of the store.
C19_Witness ==
    /\ res.endpoint = "companies" /\ "thrown" \in DOMAIN res
    /\ res.query = IntParam(1)
    /\ res.status = 500
    /\ \E i \in DOMAIN jobs : jobs[i].user = res.caller


(***************************************************************************)
(* Requests in flight.  A handler is an async function: it runs up to its  *)
(* await, the store serves the call, and the handler resumes with what the *)
(* call returned; other requests run in between.  inflight holds the       *)
(* requests that have begun and not yet responded: pc is "await" before    *)
(* the store call is served and "resumed" after it, read is the collection *)
(* as the store call saw it, local is what the handler's own bindings hold.*)
(***************************************************************************)
MaxInFlight == 2

Request(endpoint, caller, q, id, t) ==
    [endpoint |-> endpoint, caller |-> caller, query |-> q, id |-> id, time |-> t,
     pc |-> "await", read |-> <<>>, local |-> <<>>]

\* The requests in flight without the n-th, which has responded.
Drop(reqs, n) ==
    [k \in 1..(Len(reqs) - 1) |-> IF k < n THEN reqs[k] ELSE reqs[k + 1]]

\* Bindings kept at module level: every handler reads what the request that
\* resumed last has stored.
LocalsShared(reqs, n) ==
    LET resumed == {k \in DOMAIN reqs : reqs[k].pc = "resumed"}
    IN  reqs[CHOOSE k \in resumed : \A j \in resumed : j <= k].local

\* const interviews = await ..., const trends = await ...: the bindings of one
\* call of the handler.
Locals(reqs, n) == reqs[n].local

\* GET /api/analytics/interviews and /trends up to the await: the validators,
\* then the handler builds its pipeline from req.user._id and req.query.
BeginAnalytics(view, caller, q) ==
    /\ Len(inflight) < MaxInFlight
    /\ IF view = "trends" /\ ~OptionalIsIn(q, Periods)
       THEN /\ res' = ValidationFailed("trends", caller, q, now, {"period"})
            /\ UNCHANGED inflight
       ELSE /\ inflight' = Append(inflight, Request(view, caller, q, 0, now))
            /\ UNCHANGED res
    /\ UNCHANGED <<jobs, nextId, now, users>>

\* Job.aggregate(pipeline) is served: the pipeline runs over the collection
\* as it is now and the handler's binding receives the result.
Aggregate(n) ==
    /\ n \in DOMAIN inflight
    /\ inflight[n].pc = "await"
    /\ inflight[n].endpoint \in {"interviews", "trends"}
    /\ LET r == inflight[n]
       IN  inflight' = [inflight EXCEPT ![n] =
               [r EXCEPT !.pc = "resumed",
                         !.read = jobs,
                         !.local = IF r.endpoint = "interviews"
                                   THEN InterviewsBody(jobs, r.caller)
                                   ELSE TrendsBody(jobs, r.caller, PeriodOf(r.query), r.time)]]
    /\ UNCHANGED <<jobs, nextId, now, res, users>>

\* The handler resumes and sends res.json({ success: true, data }).
RespondAnalytics(n) ==
    /\ n \in DOMAIN inflight
    /\ inflight[n].pc = "resumed"
    /\ inflight[n].endpoint \in {"interviews", "trends"}
    /\ LET r == inflight[n]
       IN  res' = [endpoint |-> r.endpoint, caller |-> r.caller, query |-> r.query,
                   time |-> r.time, status |-> 200, success |-> TRUE, storeCalls |-> 1,
                   body |-> Locals(inflight, n), read |-> r.read]
    /\ inflight' = Drop(inflight, n)
    /\ UNCHANGED <<jobs, nextId, now, users>>

(***************************************************************************)
(* Concurrent analytics: interviews and trends requests of both users in   *)
(* flight together, with jobs created, moved on and deleted in between.    *)
(***************************************************************************)
InitConcurrent == jobs = <<>> /\ nextId = 1 /\ now = TrendsNow /\ res = NoResponse
    /\ inflight = <<>> /\ users = <<>>

NextConcurrent ==
    \/ /\ nextId < MaxJobs
       /\ \/ CreateJob("u1", Body("Engineer", "Acme", "NYC", Undefined, "interviewing",
                                  MakeDay(2023, 11, 28),
                                  <<[type |-> "phone", outcome |-> "passed"]>>))
          \/ CreateJob("u2", Body("Analyst", "Globex", "NYC", Undefined, "offered",
                                  MakeDay(2024, 0, 2),
                                  <<[type |-> "video", outcome |-> "failed"]>>))
    \/ \E u \in Users, id \in 1..MaxJobs : DeleteJob(u, id)
    \/ \E u \in Users : BeginAnalytics("interviews", u, Absent)
    \/ \E u \in Users, q \in {TextParam("week"), TextParam("day")} :
          BeginAnalytics("trends", u, q)
    \/ \E n \in 1..MaxInFlight : Aggregate(n)
    \/ \E n \in 1..MaxInFlight : RespondAnalytics(n)

SpecConcurrent == InitConcurrent /\ [][NextConcurrent]_vars

\* C21: under any interleaving of analytics requests with each other and with
\* creates and deletes, the body of every interviews or trends response is what
\* the aggregation makes of the request's own caller, the request's own
\* parameters and the collection as the request's own store call read it.
C21_ResponsePureFunctionOfOwnInputs ==
    (res.endpoint \in {"interviews", "trends"} /\ res.status = 200) =>
        res.body = IF res.endpoint = "interviews"
                   THEN InterviewsBody(res.read, res.caller)
                   ELSE TrendsBody(res.read, res.caller, PeriodOf(res.query), res.time)

\* A trends response of the first user, non-empty, whose snapshot is no longer
\* the collection, sent while a request of the other user has resumed with a
\* non-empty result of its own.
C21_Witness ==
    /\ res.endpoint = "trends" /\ res.status = 200 /\ res.caller = "u1"
    /\ res.body.trends # <<>>
    /\ res.read # jobs
    /\ \E k \in DOMAIN inflight :
          /\ inflight[k].caller = "u2" /\ inflight[k].pc = "resumed"
          /\ inflight[k].endpoint = "interviews"
          /\ DOMAIN inflight[k].local # {}


(***************************************************************************)
(* Interview entries: jobs of the first user created as applied or as      *)
(* offered and jobs of the second as applied, and interviews added by      *)
(* either user to every id, with and without an outcome, with a type of    *)
(* the enum and one outside it.                                            *)
(***************************************************************************)
InitAppend == jobs = <<>> /\ nextId = 1 /\ now = Today /\ res = NoResponse
    /\ inflight = <<>> /\ users = <<>>

AppendInputs == {"phone", "chat"} \X {Undefined, "passed"}

NextAppend ==
    \/ /\ nextId < MaxJobs
       /\ \E e \in {<<"u1", Undefined>>, <<"u1", "offered">>, <<"u2", Undefined>>} :
             CreateJob(e[1], Body("Engineer", "Acme", "NYC", Undefined, e[2], Today - 3, <<>>))
    \/ \E u \in Users, i \in JobIds, e \in AppendInputs : AddInterview(u, i, e[1], e[2])

SpecAppend == InitAppend /\ [][NextAppend]_vars

C23_OwnerStable ==
    [][/\ \A i \in DOMAIN jobs \cap DOMAIN jobs' : jobs'[i].user = jobs[i].user
       /\ \A i \in DOMAIN jobs' \ DOMAIN jobs : jobs'[i].user = res'.caller]_vars


(***************************************************************************)
(* PUT /api/jobs/:id and GET /api/jobs in flight: each makes two store     *)
(* calls, and other requests run between the two.                          *)
(***************************************************************************)
\* PUT /api/jobs/:id up to its first await: the validators.
BeginPut(caller, id, body) ==
    /\ Len(inflight) < MaxInFlight
    /\ IF PutErrors(body) # {}
       THEN /\ res' = ValidationFailed("put", caller, Absent, now, PutErrors(body))
            /\ UNCHANGED inflight
       ELSE /\ inflight' = Append(inflight, Request("put", caller, body, id, now))
            /\ UNCHANGED res
    /\ UNCHANGED <<jobs, nextId, now, users>>

\* let job = await Job.findById(req.params.id) is served, then the two checks.
PutFind(n) ==
    /\ n \in DOMAIN inflight
    /\ inflight[n].endpoint = "put"
    /\ inflight[n].pc = "await"
    /\ LET r == inflight[n]
       IN  IF r.id \notin DOMAIN jobs
           THEN /\ res' = Thrown("put", r.caller, r.id, r.time, AppError("Job not found", 404), 1)
                /\ inflight' = Drop(inflight, n)
           ELSE IF ~IsOwner(jobs[r.id], r.caller)
           THEN /\ res' = Thrown("put", r.caller, r.id, r.time,
                                 AppError("Not authorized to update this job", 403), 1)
                /\ inflight' = Drop(inflight, n)
           ELSE /\ inflight' = [inflight EXCEPT ![n] =
                                   [r EXCEPT !.pc = "resumed", !.read = jobs,
                                             !.local = <<jobs[r.id]>>]]
                /\ UNCHANGED res
    /\ UNCHANGED <<jobs, nextId, now, users>>

\* job = await Job.findByIdAndUpdate(req.params.id, req.body, { new: true, ... })
\* is served: the document of that id is updated and returned, or null when the
\* collection has none; then res.json({ success: true, data: { job } }).  In the
\* response job is <<>> for null; written tells what the write met.
PutWrite(n) ==
    /\ n \in DOMAIN inflight
    /\ inflight[n].endpoint = "put"
    /\ inflight[n].pc = "resumed"
    /\ LET r       == inflight[n]
           existed == r.id \in DOMAIN jobs
           updated == FindByIdAndUpdate(jobs[r.id], r.query, now)
       IN  /\ jobs' = IF existed THEN Put(jobs, r.id, updated) ELSE jobs
           /\ res' = [endpoint |-> "put", caller |-> r.caller, id |-> r.id, time |-> r.time,
                      status |-> 200, success |-> TRUE, storeCalls |-> 2,
                      body |-> [job |-> IF existed THEN <<updated>> ELSE <<>>],
                      written |-> [existed |-> existed,
                                   owner |-> IF existed THEN jobs[r.id].user ELSE Undefined]]
    /\ inflight' = Drop(inflight, n)
    /\ UNCHANGED <<nextId, now, users>>

\* GET /api/jobs up to its first await: the validators, the query and the sort.
BeginList(caller, q) ==
    /\ Len(inflight) < MaxInFlight
    /\ IF ListErrors(q) # {}
       THEN /\ res' = ValidationFailed("jobs", caller, q, now, ListErrors(q))
            /\ UNCHANGED inflight
       ELSE /\ inflight' = Append(inflight, Request("jobs", caller, q, 0, now))
            /\ UNCHANGED res
    /\ UNCHANGED <<jobs, nextId, now, users>>

\* const jobs = await Job.find(query).sort(sort).skip(skip).limit(limit) is
\* served: the page of the collection as it is now.
ListFind(n) ==
    /\ n \in DOMAIN inflight
    /\ inflight[n].endpoint = "jobs"
    /\ inflight[n].pc = "await"
    /\ LET r == inflight[n]
       IN  \E order \in ListOrders(jobs, r.caller, r.query) :
              inflight' = [inflight EXCEPT ![n] =
                  [r EXCEPT !.pc = "resumed", !.read = jobs,
                            !.local = ListResponse(jobs, r.caller, r.query, r.time,
                                                   order).body.jobs]]
    /\ UNCHANGED <<jobs, nextId, now, res, users>>

\* const total = await Job.countDocuments(query) is served: the count of the
\* collection as it is now; then res.json with the page found before.
ListCount(n) ==
    /\ n \in DOMAIN inflight
    /\ inflight[n].endpoint = "jobs"
    /\ inflight[n].pc = "resumed"
    /\ LET r == inflight[n]
           counted == ListResponse(jobs, r.caller, r.query, r.time, <<>>)
       IN  res' = [counted EXCEPT !.body.jobs = Locals(inflight, n)]
    /\ inflight' = Drop(inflight, n)
    /\ UNCHANGED <<jobs, nextId, now, users>>

(***************************************************************************)
(* Races: jobs of the first user created, updated, listed and deleted,     *)
(* with updates and lists in flight while other requests are handled.      *)
(***************************************************************************)
InitRace == jobs = <<>> /\ nextId = 1 /\ now = Today /\ res = NoResponse
    /\ inflight = <<>> /\ users = <<>>

RaceBodies == {[status |-> "offered"], [status |-> "hired"]}

RaceQueries == {NoListQuery, [NoListQuery EXCEPT !.limit = IntParam(0)]}

NextRace ==
    \/ /\ nextId < MaxJobs
       /\ \E u \in Users :
             CreateJob(u, Body("Engineer", "Acme", "NYC", Undefined, Undefined, Today - 3, <<>>))
    \/ \E i \in JobIds : DeleteJob("u1", i)
    \/ \E u \in Users, i \in JobIds, body \in RaceBodies : BeginPut(u, i, body)
    \/ \E n \in 1..MaxInFlight : PutFind(n)
    \/ \E n \in 1..MaxInFlight : PutWrite(n)
    \/ \E q \in RaceQueries : BeginList("u1", q)
    \/ \E n \in 1..MaxInFlight : ListFind(n)
    \/ \E n \in 1..MaxInFlight : ListCount(n)

SpecRace == InitRace /\ [][NextRace]_vars

\* C24: whenever PUT /api/jobs/:id answers with success, the record existed and
\* was owned by the caller when the write was applied, and the response carries
\* the updated record, not null, whatever DELETE or PUT request ran in between.
C24_UpdateWritesOwnedRecord ==
    (res.endpoint = "put" /\ res.status = 200) =>
        /\ res.written.existed
        /\ res.written.owner = res.caller
        /\ Len(res.body.job) = 1

\* C25: the page and pagination.total of a GET /api/jobs response describe one
\* snapshot of the store: the page never holds more records than total, and
\* page 1 with a limit above total holds exactly total records, also when
\* jobs of the caller are created or deleted while the request is in flight.
C25_PageAndTotalOneSnapshot ==
    (res.endpoint = "jobs" /\ res.status = 200) =>
        /\ Len(res.body.jobs) <= res.body.pagination.total
        /\ (res.body.pagination.page = 1
            /\ res.body.pagination.limit > res.body.pagination.total) =>
               Len(res.body.jobs) = res.body.pagination.total


\* C26: the buckets of a trends response are in chronological order and none
\* merges two calendar periods of the lookback window: of the caller's records
\* dated from the window's start to now, those of an earlier bucket are dated
\* before those of every later bucket, also when the window spans a year
\* boundary, and those of one bucket are of one year.
C26_TrendBucketsChronological ==
    (res.endpoint = "trends" /\ res.status = 200) =>
        LET startDate == TrendsStart(res.body.period, res.time)
            within(n) == {i \in InBucket(startDate, res.body.trends[n].period) :
                             jobs[i].applicationDate <= res.time}
        IN  /\ \A n \in 1..Len(res.body.trends), m \in 1..Len(res.body.trends) :
                  n < m => \A i \in within(n), j \in within(m) :
                               jobs[i].applicationDate < jobs[j].applicationDate
            /\ \A n \in 1..Len(res.body.trends) :
                  \A i \in within(n), j \in within(n) :
                      YearOf(jobs[i].applicationDate) = YearOf(jobs[j].applicationDate)


\* 100.00 in hundredths.
Hundred == 100 * 100

\* C27 as stated: in every bucket of a trends response each of the three rates
\* lies in [0, 100] and applied + interviewing + offered <= totalApplications.
C27_TrendRatesWithinHundred ==
    (res.endpoint = "trends" /\ res.status = 200) =>
        \A n \in 1..Len(res.body.trends) :
            LET b == res.body.trends[n]
            IN  /\ 0 <= b.applicationToInterviewRate /\ b.applicationToInterviewRate <= Hundred
                /\ 0 <= b.interviewToOfferRate /\ b.interviewToOfferRate <= Hundred
                /\ 0 <= b.overallSuccessRate /\ b.overallSuccessRate <= Hundred
                /\ b.applied + b.interviewing + b.offered <= b.totalApplications

\* C27: in every bucket of a trends response applicationToInterviewRate and
\* overallSuccessRate lie in [0, 100]; interviewToOfferRate is never negative
\* and lies in [0, 100] whenever the bucket has no more offered than
\* interviewing records; applied + interviewing + offered <= totalApplications.
C27_TrendRatesBounded ==
    (res.endpoint = "trends" /\ res.status = 200) =>
        \A n \in 1..Len(res.body.trends) :
            LET b == res.body.trends[n]
            IN  /\ 0 <= b.applicationToInterviewRate /\ b.applicationToInterviewRate <= Hundred
                /\ 0 <= b.interviewToOfferRate
                /\ b.offered <= b.interviewing => b.interviewToOfferRate <= Hundred
                /\ 0 <= b.overallSuccessRate /\ b.overallSuccessRate <= Hundred
                /\ b.applied + b.interviewing + b.offered <= b.totalApplications

\* A bucket of two offered records and one interviewing record: its
\* interviewToOfferRate is 200.00.
C27_Witness ==
    /\ res.endpoint = "trends" /\ res.status = 200
    /\ \E n \in 1..Len(res.body.trends) :
          /\ res.body.trends[n].offered = 2
          /\ res.body.trends[n].interviewing = 1
          /\ res.body.trends[n].interviewToOfferRate = 2 * Hundred


\* The sum of the counts of a status breakdown.
BreakdownSum(breakdown) == SumOver(DOMAIN breakdown, breakdown)

\* C28: in every entry of a companies or locations response the statusBreakdown
\* counts sum to totalApplications, in every entry of a timeline response the
\* statuses counts sum to total, and when the limit truncates nothing (the
\* response lists fewer companies than the limit) the totalApplications of the
\* company entries sum to the number of the caller's records.
C28_BreakdownsSumToTotals ==
    /\ (res.endpoint \in {"companies", "locations"} /\ res.status = 200) =>
          \A n \in 1..Len(res.body) :
              BreakdownSum(res.body[n].statusBreakdown) = res.body[n].totalApplications
    /\ (res.endpoint = "timeline" /\ res.status = 200) =>
          \A n \in 1..Len(res.body) :
              BreakdownSum(res.body[n].statuses) = res.body[n].total
    /\ (/\ res.endpoint = "companies" /\ res.status = 200
        /\ Len(res.body) < ParseIntOr(res.query, LimitDefault)) =>
          SumOver(1..Len(res.body), [n \in 1..Len(res.body) |-> res.body[n].totalApplications])
              = Cardinality({i \in DOMAIN jobs : jobs[i].user = res.caller})

\* A companies response under the default limit that lists two companies of
\* the caller, one of them with records of two statuses.
C28_Witness ==
    /\ res.endpoint = "companies" /\ res.status = 200
    /\ Len(res.body) = 2
    /\ Len(res.body) < ParseIntOr(res.query, LimitDefault)
    /\ \E n \in 1..Len(res.body) :
          /\ res.body[n].totalApplications = 2
          /\ Cardinality(DOMAIN res.body[n].statusBreakdown) = 2


(***************************************************************************)
(* The auth routes.  users maps the stored (normalized) email of each User *)
(* document to the document.  Besides the fields of the document, the      *)
(* model keeps for each user what has happened to it: issued counts the    *)
(* verification tokens made for it and issuedAt tells when the latest was  *)
(* made, spent lists the tokens that verified it, confirmed tells that a   *)
(* token verified it while it was the latest made for it and not expired,  *)
(* and session tells that a login has issued a JWT for it.                 *)
(***************************************************************************)
MaxTokens == 2

Emails == {"ann@x.org", "Ann@x.org", "bob@x.org", "ann"}

Passwords == {"password1", "password2", "short"}

\* body('email').isEmail()
IsEmail(email) == email \in {"ann@x.org", "Ann@x.org", "bob@x.org"}

\* .normalizeEmail(): the address in lower case.
NormalizeEmail(email) == IF email = "Ann@x.org" THEN "ann@x.org" ELSE email

\* body('password').isLength({ min: 8 })
IsLongEnough(password) == password \in {"password1", "password2"}

\* crypto.createHash('sha256').update(token).digest('hex')
Sha256(token) == <<"sha256", token>>

NoToken == <<>>

\* The link mailed to the user says that it expires in 24 hours.
VerificationDays == 1

\* User.create({ ... }): a new account is active and its email not verified.
NewUser(email, password) ==
    [email |-> email, password |-> password, isActive |-> TRUE, emailVerified |-> FALSE,
     emailVerificationToken |-> NoToken, emailVerificationExpires |-> NoDate,
     passwordResetToken |-> NoToken, lastLogin |-> NoDate,
     issued |-> 0, issuedAt |-> NoDate, spent |-> <<>>, confirmed |-> FALSE,
     session |-> FALSE]

\* The token made by the next user.createEmailVerificationToken().
NextVerificationToken(user) == <<user.email, user.issued + 1>>

\* user.createEmailVerificationToken(): a fresh random token; the document
\* keeps its hash and the instant it expires.
CreateEmailVerificationToken(user, t) ==
    [user EXCEPT !.emailVerificationToken = Sha256(NextVerificationToken(user)),
                 !.emailVerificationExpires = t + VerificationDays,
                 !.issued = @ + 1,
                 !.issuedAt = t]

\* user.createPasswordResetToken()
CreatePasswordResetToken(user, t) ==
    [user EXCEPT !.passwordResetToken = Sha256(<<user.email, "reset", t>>)]

\* user.correctPassword(candidate, user.password)
CorrectPassword(candidate, password) == candidate = password

AuthResponse(endpoint, email, t, code, message) ==
    [endpoint |-> endpoint, email |-> email, time |-> t, status |-> code,
     success |-> code < 400, message |-> message, storeCalls |-> 1]

\* An AppError thrown by an auth handler, answered by the error handler.
AuthThrown(endpoint, email, t, err) ==
    AuthResponse(endpoint, email, t, ErrorHandler(err).status, ErrorHandler(err).message)

AuthValidationFailed(endpoint, email, t) ==
    [AuthResponse(endpoint, email, t, 400, "Validation failed") EXCEPT !.storeCalls = 0]

\* POST /api/auth/register
Register(email, password) ==
    /\ LET e == NormalizeEmail(email)
       IN  IF ~IsEmail(email) \/ ~IsLongEnough(password)
           THEN /\ res' = AuthValidationFailed("register", email, now)
                /\ UNCHANGED users
           ELSE IF e \in DOMAIN users
           THEN /\ res' = AuthThrown("register", e, now,
                                     AppError("User with this email already exists", 400))
                /\ UNCHANGED users
           ELSE /\ users' = Put(users, e, CreateEmailVerificationToken(NewUser(e, password), now))
                /\ res' = [AuthResponse("register", e, now, 201, "User registered successfully!")
                              @@ [requiresVerification |-> TRUE]
                              EXCEPT !.storeCalls = 3]
    /\ UNCHANGED <<jobs, nextId, now, inflight>>

\* A login that does not ask whether the email is verified.
LoginErrorUnverified(users_, email, password) ==
    IF email \notin DOMAIN users_ \/ ~CorrectPassword(password, users_[email].password)
    THEN <<AppError("Invalid email or password", 401)>>
    ELSE IF ~users_[email].isActive
    THEN <<AppError("Your account has been deactivated. Please contact support.", 401)>>
    ELSE <<>>

\* The three checks of the login handler: the error thrown, if any.
LoginError(users_, email, password) ==
    IF email \notin DOMAIN users_ \/ ~CorrectPassword(password, users_[email].password)
    THEN <<AppError("Invalid email or password", 401)>>
    ELSE IF ~users_[email].isActive
    THEN <<AppError("Your account has been deactivated. Please contact support.", 401)>>
    ELSE IF ~users_[email].emailVerified
    THEN <<AppError("Please verify your email address before logging in.", 401)>>
    ELSE <<>>

\* POST /api/auth/login
Login(email, password) ==
    /\ LET e == NormalizeEmail(email)
       IN  IF ~IsEmail(email) \/ password = ""
           THEN /\ res' = AuthValidationFailed("login", email, now)
                /\ UNCHANGED users
           ELSE IF LoginError(users, e, password) # <<>>
           THEN /\ res' = AuthThrown("login", e, now, LoginError(users, e, password)[1])
                /\ UNCHANGED users
           ELSE /\ users' = [users EXCEPT ![e].lastLogin = now, ![e].session = TRUE]
                /\ res' = [AuthResponse("login", e, now, 200, "Login successful")
                              @@ [password |-> password, token |-> <<"jwt", e>>]
                              EXCEPT !.storeCalls = 2]
    /\ UNCHANGED <<jobs, nextId, now, inflight>>

\* User.findOne({ emailVerificationToken: hashedToken,
\*                emailVerificationExpires: { $gt: Date.now() } })
FindByVerificationToken(users_, hashedToken, t) ==
    {e \in DOMAIN users_ :
        /\ users_[e].emailVerificationToken = hashedToken
        /\ users_[e].emailVerificationExpires > t}

\* GET /api/auth/verify-email?token=
VerifyEmail(token) ==
    /\ IF token = NoToken
       THEN /\ res' = [AuthThrown("verify", Undefined, now,
                                  AppError("Verification token is required", 400))
                          @@ [used |-> token] EXCEPT !.storeCalls = 0]
            /\ UNCHANGED users
       ELSE LET found == FindByVerificationToken(users, Sha256(token), now)
            IN  IF found = {}
                THEN /\ res' = AuthThrown("verify", Undefined, now,
                                          AppError("Invalid or expired verification token", 400))
                                  @@ [used |-> token]
                     /\ UNCHANGED users
                ELSE \E e \in found :
                        /\ users' = [users EXCEPT
                               ![e].emailVerified = TRUE,
                               ![e].emailVerificationToken = NoToken,
                               ![e].emailVerificationExpires = NoDate,
                               ![e].spent = Append(@, token),
                               ![e].confirmed =
                                   \/ @
                                   \/ /\ token = <<e, users[e].issued>>
                                      /\ now < users[e].issuedAt + VerificationDays]
                        /\ res' = [AuthResponse("verify", e, now, 200,
                                                "Email verified successfully!")
                                      @@ [used |-> token] EXCEPT !.storeCalls = 2]
    /\ UNCHANGED <<jobs, nextId, now, inflight>>

\* POST /api/auth/resend-verification
ResendVerification(email) ==
    /\ LET e == NormalizeEmail(email)
       IN  IF ~IsEmail(email)
           THEN /\ res' = AuthValidationFailed("resend", email, now)
                /\ UNCHANGED users
           ELSE IF e \notin DOMAIN users
           THEN /\ res' = AuthThrown("resend", e, now, AppError("User not found", 404))
                /\ UNCHANGED users
           ELSE IF users[e].emailVerified
           THEN /\ res' = AuthThrown("resend", e, now, AppError("Email is already verified", 400))
                /\ UNCHANGED users
           ELSE /\ users[e].issued < MaxTokens
                /\ users' = [users EXCEPT ![e] = CreateEmailVerificationToken(@, now)]
                /\ res' = [AuthResponse("resend", e, now, 200, "Verification email sent")
                              EXCEPT !.storeCalls = 2]
    /\ UNCHANGED <<jobs, nextId, now, inflight>>

\* protect: the request carries a JWT that a login has issued for the user.
Protect(users_, email) == email \in DOMAIN users_ /\ users_[email].session

\* PUT /api/auth/profile: User.findByIdAndUpdate(req.user._id, req.body, ...)
UpdateProfile(email, body) ==
    /\ IF ~Protect(users, email)
       THEN /\ res' = [AuthThrown("profile", email, now, AppError("Not authorized", 401))
                          EXCEPT !.storeCalls = 0]
            /\ UNCHANGED users
       ELSE /\ users' = [users EXCEPT ![email] =
                            [k \in DOMAIN @ |-> IF k \in DOMAIN body THEN body[k] ELSE @[k]]]
            /\ res' = AuthResponse("profile", email, now, 200, "Profile updated successfully")
    /\ UNCHANGED <<jobs, nextId, now, inflight>>

GenericForgotMessage ==
    "If an account with that email exists, a password reset link has been sent."

\* POST /api/auth/forgot-password; emailSent is what sendPasswordResetEmail
\* returns.
ForgotPassword(email, emailSent) ==
    /\ LET e == NormalizeEmail(email)
       IN  IF ~IsEmail(email)
           THEN /\ res' = AuthValidationFailed("forgot", email, now)
                /\ UNCHANGED users
           ELSE IF e \notin DOMAIN users
           THEN /\ res' = AuthResponse("forgot", e, now, 200, GenericForgotMessage)
                /\ UNCHANGED users
           ELSE /\ users' = [users EXCEPT ![e] = CreatePasswordResetToken(@, now)]
                /\ res' = [AuthResponse("forgot", e, now, 200,
                               IF emailSent
                               THEN "Password reset email sent successfully! Please check your inbox."
                               ELSE "Password reset email could not be sent. Please try again later.")
                              EXCEPT !.storeCalls = 2]
    /\ UNCHANGED <<jobs, nextId, now, inflight>>

(***************************************************************************)
(* Accounts: one address registers (in either spelling), another never     *)
(* does; verification tokens are made, mailed again, used and left to      *)
(* expire; logins with the right and the wrong password; the profile       *)
(* switches the account off; passwords are forgotten.                      *)
(***************************************************************************)
InitAuth == jobs = <<>> /\ nextId = 1 /\ now = Today /\ res = NoResponse
    /\ inflight = <<>> /\ users = <<>>

\* The verification tokens a request may carry.
VerificationTokens == {<<"ann@x.org", k>> : k \in 1..MaxTokens}

ProfileBodies == {[isActive |-> FALSE], [emailVerified |-> FALSE]}

NextAuth ==
    \/ \E email \in {"ann@x.org", "Ann@x.org", "ann"}, password \in {"password1", "short"} :
          Register(email, password)
    \/ \E email \in Emails, password \in {"password1", "password2", ""} : Login(email, password)
    \/ \E token \in VerificationTokens \cup {NoToken} : VerifyEmail(token)
    \/ \E email \in Emails : ResendVerification(email)
    \/ \E email \in {"ann@x.org", "bob@x.org"}, body \in ProfileBodies :
          UpdateProfile(email, body)
    \/ \E email \in Emails, emailSent \in BOOLEAN : ForgotPassword(email, emailSent)
    \/ Tick

SpecAuth == InitAuth /\ [][NextAuth]_vars

\* C29: a response carries a token only when it answers a login of an existing
\* user with the password of the account, the account active and its email
\* verified; a JWT has been issued only for a user that a verify-email request
\* with the token then latest made for it, not expired, has verified; and no
\* verification token has verified an account twice.
C29_LoginGated ==
    /\ "token" \in DOMAIN res =>
          /\ res.endpoint = "login" /\ res.status = 200
          /\ res.email \in DOMAIN users
          /\ users[res.email].password = res.password
          /\ users[res.email].isActive
          /\ users[res.email].emailVerified
    /\ (res.endpoint = "login" /\ res.status = 200) => "token" \in DOMAIN res
    /\ \A e \in DOMAIN users :
          /\ users[e].session => users[e].confirmed
          /\ \A i \in 1..Len(users[e].spent), j \in 1..Len(users[e].spent) :
                i # j => users[e].spent[i] # users[e].spent[j]

\* A login answered with a token a day after the registration: the first
\* verification token was replaced by a second, which verified the account.
C29_Witness ==
    /\ res.endpoint = "login" /\ res.status = 200 /\ "token" \in DOMAIN res
    /\ res.time > Today
    /\ users[res.email].issued = 2
    /\ users[res.email].spent = <<<<res.email, 2>>>>

\* C30: forgot-password answers a registered and an unregistered address alike:
\* of two consecutive requests with valid addresses, one registered and the
\* other not, both get the same status, success flag and message.
C30_ForgotPasswordSameResponse ==
    [][(/\ res.endpoint = "forgot" /\ res'.endpoint = "forgot"
        /\ IsEmail(res.email) /\ IsEmail(res'.email)
        /\ (res.email \in DOMAIN users) # (res'.email \in DOMAIN users)) =>
           /\ res'.status = res.status
           /\ res'.success = res.success
           /\ res'.message = res.message]_vars

====
